---- MODULE Spec2Model ----
(***************************************************************************)
(* Task tree (composite), reversible commands and the CommandManager       *)
(* (undo/redo history) of the task-management core.                        *)
(*                                                                         *)
(* Objects live on a heap: a node is named by its id, and the fields       *)
(* title, completed and children are functions over the node names.        *)
(* Commands hold references (node names), exactly as the TypeScript        *)
(* objects hold references to Task / TaskGroup instances.                  *)
(* Indices keep the source's 0-based values (currentIndex, deletedIndex,   *)
(* -1 for "none"); a sequence is read at index + 1.                        *)
(***************************************************************************)
EXTENDS Integers, Sequences, FiniteSets, TLC

VARIABLES title, completed, children,
          history, currentIndex, savedHistory,
          nextCid, undos, edits, lastOp,
          observers, projects, isInitialized, managers,
          pending, replaced

vars == <<title, completed, children, history, currentIndex, savedHistory,
          nextCid, undos, edits, lastOp,
          observers, projects, isInitialized, managers,
          pending, replaced>>

\* the fields of the TaskStore and of the CommandManagers it holds, and those
\* of the project page: the persistence calls in flight, and the commands
\* whose task objects a reload of the project has replaced
storeVars == <<observers, projects, isInitialized, managers, pending, replaced>>

(***************************************************************************)
(* Bounds of the model and constants of the program.                       *)
(***************************************************************************)
\* commands the caller constructs in a run of Spec
MaxCmds == 2
\* commands the caller constructs in a run of SpecFill
MaxFill == 21
\* successful undo() calls in a run of SpecFill
MaxUndos == 2
\* direct tree calls (addChild, removeChild, findTask) in a run of SpecTree
\* and of SpecAdd
MaxEdits == 2
MaxCount == 25
MaxObservers == 3
\* tasks in the trees of the store in a run of SpecStats
MaxTotal == 40
\* persistence calls in flight at a time in a run of SpecPage
MaxPending == 2
\* calls that end in an exception in a run of SpecFault
MaxFaults == 2
\* CommandManager.maxHistorySize
maxHistorySize == 20

NULL == "null"

(***************************************************************************)
(* The heap of task objects.                                               *)
(***************************************************************************)
FreshNames == <<"t1", "t2", "t3", "t4", "t5", "t6">>
TreeNodes == {"p1", "a", "b", "c", "x"}
\* a second group, and a task object that carries the id of x
ExtraNodes == {"g", "d"}
FreshNodes == {FreshNames[k] : k \in 1..MaxCmds}
Nodes == TreeNodes \cup ExtraNodes \cup FreshNodes
\* TaskGroup instances (children is an array); the others are Task
\* instances (children is undefined)
Groups == {"p1", "b", "g", "t2", "t4", "t6"}
\* TaskComponent.id: every object is named by its id, except d
idOf(n) == IF n = "d" THEN "x" ELSE n
\* an id that names no object
AbsentId == "zz"
Ids == {idOf(n) : n \in Nodes} \cup {AbsentId}
Titles == {"Root", "Sub A", "Sub B"}
Root == "p1"

\* mutation: the last matching child is taken, not the first
findLastIndex(seq, taskId) ==
    IF \E k \in 1..Len(seq) : idOf(seq[k]) = taskId
    THEN (CHOOSE k \in 1..Len(seq) :
            /\ idOf(seq[k]) = taskId
            /\ \A j \in (k + 1)..Len(seq) : idOf(seq[j]) # taskId) - 1
    ELSE -1

\* Array.prototype.findIndex((child) => child.id === taskId): 0-based, -1 if none
findIndex(seq, taskId) ==
    IF \E k \in 1..Len(seq) : idOf(seq[k]) = taskId
    THEN (CHOOSE k \in 1..Len(seq) :
            /\ idOf(seq[k]) = taskId
            /\ \A j \in 1..(k - 1) : idOf(seq[j]) # taskId) - 1
    ELSE -1

\* seq.splice(index, 1): the sequence without the element at 0-based index
spliceOut(seq, index) ==
    SubSeq(seq, 1, index) \o SubSeq(seq, index + 2, Len(seq))

\* seq.splice(index, 0, e): e inserted at 0-based index (clamped to the length)
spliceIn(seq, index, e) ==
    LET i == IF index > Len(seq) THEN Len(seq) ELSE index
    IN  SubSeq(seq, 1, i) \o <<e>> \o SubSeq(seq, i + 1, Len(seq))

\* TaskGroup.addChild
addChild(ch, parent, task) ==
    [ch EXCEPT ![parent] = Append(ch[parent], task)]

\* mutation: the index is not tested against -1, and splice(-1, 1) removes
\* the last child
removeChildUnchecked(ch, n, taskId) ==
    LET index == findIndex(ch[n], taskId)
        at == IF index = -1 THEN Len(ch[n]) - 1 ELSE index
    IN  IF ch[n] = <<>>
        THEN [removed |-> NULL, ch |-> ch]
        ELSE [removed |-> ch[n][at + 1],
              ch |-> [ch EXCEPT ![n] = spliceOut(ch[n], at)]]

\* TaskGroup.removeChild: [removed |-> node or NULL, ch |-> children afterwards]
RECURSIVE removeChild(_, _, _)
RECURSIVE removeInChildren(_, _, _, _)
removeChild(ch, n, taskId) ==
    LET index == findIndex(ch[n], taskId)
    IN  IF index = -1
        THEN removeInChildren(ch, n, taskId, 1)
        ELSE [removed |-> ch[n][index + 1],
              ch |-> [ch EXCEPT ![n] = spliceOut(ch[n], index)]]

\* the for-loop of removeChild over the children of n, from position k
removeInChildren(ch, n, taskId, k) ==
    IF k > Len(ch[n])
    THEN [removed |-> NULL, ch |-> ch]
    ELSE IF ch[n][k] \in Groups
         THEN LET r == removeChild(ch, ch[n][k], taskId)
              IN  IF r.removed # NULL THEN r
                  ELSE removeInChildren(ch, n, taskId, k + 1)
         ELSE removeInChildren(ch, n, taskId, k + 1)

\* the nodes of the subtree below (and including) n
RECURSIVE Subtree(_, _)
Subtree(ch, n) ==
    {n} \cup UNION {Subtree(ch, ch[n][k]) : k \in 1..Len(ch[n])}

InTree(ch) == Subtree(ch, Root)

\* mutation: a group does not count itself
groupTaskCountNoSelf(sum) == sum

\* TaskGroup.getTaskCount, line 24: 1 + the sum over the children
groupTaskCount(sum) == 1 + sum

\* TaskGroup.getTaskCount / Task.getTaskCount
RECURSIVE getTaskCount(_, _)
RECURSIVE sumTaskCount(_, _, _)
getTaskCount(ch, n) ==
    IF n \in Groups THEN groupTaskCount(sumTaskCount(ch, ch[n], 1)) ELSE 1

\* children.reduce((sum, child) => sum + child.getTaskCount(), 0), from k
sumTaskCount(ch, seq, k) ==
    IF k > Len(seq) THEN 0
    ELSE getTaskCount(ch, seq[k]) + sumTaskCount(ch, seq, k + 1)

\* TaskGroup.getCompletedCount / Task.getCompletedCount
RECURSIVE getCompletedCount(_, _, _)
RECURSIVE sumCompletedCount(_, _, _, _)
getCompletedCount(ch, c, n) ==
    LET thisCount == IF c[n] THEN 1 ELSE 0
    IN  IF n \in Groups
        THEN thisCount + sumCompletedCount(ch, c, ch[n], 1)
        ELSE thisCount

\* children.reduce((sum, child) => sum + child.getCompletedCount(), 0), from k
sumCompletedCount(ch, c, seq, k) ==
    IF k > Len(seq) THEN 0
    ELSE getCompletedCount(ch, c, seq[k]) + sumCompletedCount(ch, c, seq, k + 1)

\* mutation: the group's own flag is not looked at
groupIsCompleteIgnoreOwn(own, kids) == kids

\* TaskGroup.isComplete, lines 39-40
groupIsComplete(own, kids) == IF ~own THEN FALSE ELSE kids

\* mutation: isComplete() is the node's own flag, for a group as well
isCompleteOwnFlag(ch, c, n) == c[n]

\* TaskGroup.isComplete / Task.isComplete
RECURSIVE isComplete(_, _, _)
isComplete(ch, c, n) ==
    IF n \in Groups
    THEN groupIsComplete(c[n],
             \A k \in 1..Len(ch[n]) : isComplete(ch, c, ch[n][k]))
    ELSE c[n]

\* mutation: only the node and its direct children are searched
findTaskDirect(ch, n, taskId) ==
    IF idOf(n) = taskId THEN n
    ELSE IF findIndex(ch[n], taskId) # -1
         THEN ch[n][findIndex(ch[n], taskId) + 1]
         ELSE NULL

\* TaskGroup.findTask: the node found, or NULL
RECURSIVE findTask(_, _, _)
RECURSIVE findInChildren(_, _, _, _)
findTask(ch, n, taskId) ==
    IF idOf(n) = taskId THEN n ELSE findInChildren(ch, n, taskId, 1)

\* the for-loop of findTask over the children of n, from position k
findInChildren(ch, n, taskId, k) ==
    IF k > Len(ch[n]) THEN NULL
    ELSE IF idOf(ch[n][k]) = taskId THEN ch[n][k]
    ELSE IF ch[n][k] \in Groups
         THEN LET found == findTask(ch, ch[n][k], taskId)
              IN  IF found # NULL THEN found
                  ELSE findInChildren(ch, n, taskId, k + 1)
         ELSE findInChildren(ch, n, taskId, k + 1)

\* Task.toJSON / TaskGroup.toJSON of node n: a record, with the field
\* children (the records of the children, in order) for a TaskGroup only
RECURSIVE toJSON(_, _)
toJSON(H, n) ==
    IF n \in Groups
    THEN [id |-> idOf(n), title |-> H.title[n], completed |-> H.completed[n],
          children |-> [k \in 1..Len(H.children[n]) |->
                           toJSON(H, H.children[n][k])]]
    ELSE [id |-> idOf(n), title |-> H.title[n], completed |-> H.completed[n]]

\* Task.fromJSON: a new Task, as the record of its class and fields
taskFromJSON(json) ==
    [class |-> "Task", id |-> json.id, title |-> json.title,
     completed |-> json.completed]

\* mutation: a record with a children array is a group, also an empty one
hasChildrenArray(json) == "children" \in DOMAIN json

\* line 86: childJson.children && childJson.children.length > 0
hasChildren(json) ==
    IF "children" \in DOMAIN json THEN Len(json.children) > 0 ELSE FALSE

\* TaskGroup.fromJSON: a new TaskGroup, as the record of its class and
\* fields; each child is a TaskGroup or a Task by line 86
RECURSIVE fromJSON(_)
fromJSON(json) ==
    [class |-> "TaskGroup", id |-> json.id, title |-> json.title,
     completed |-> json.completed,
     children |->
         IF "children" \in DOMAIN json
         THEN [k \in 1..Len(json.children) |->
                  IF hasChildren(json.children[k])
                  THEN fromJSON(json.children[k])
                  ELSE taskFromJSON(json.children[k])]
         ELSE <<>>]

(***************************************************************************)
(* Commands.  A command is a record; cid names the instance (the object    *)
(* identity of the TypeScript command) and timestamp its creation time.    *)
(* The fields a variant does not have are NULL / -1.  onExecute and onUndo *)
(* are the callbacks, as the persistence calls they start: none unless the *)
(* project page built the command.  throws names what throws when it is    *)
(* called: a callback, after the method has changed the tree, or a method  *)
(* of the command itself, before it has done anything.                     *)
(***************************************************************************)
Heap(t, c, ch) == [title |-> t, completed |-> c, children |-> ch]

BlankCommand(cid, type) ==
    [cid |-> cid, type |-> type, timestamp |-> cid,
     task |-> NULL, parent |-> NULL, taskId |-> NULL,
     newTitle |-> NULL, oldTitle |-> NULL,
     deletedTask |-> NULL, deletedIndex |-> -1,
     description |-> <<>>,
     onExecute |-> <<>>, onUndo |-> <<>>, throws |-> {}]

\* new CreateTaskCommand(task, parent, onExecute, onUndo)
CreateTaskCommand(cid, H, task, parent) ==
    [BlankCommand(cid, "Create") EXCEPT
        !.task = task, !.parent = parent,
        !.description = <<"Create task", H.title[task]>>]

\* new DeleteTaskCommand(taskId, parent, taskTitle, onExecute, onUndo)
DeleteTaskCommand(cid, taskId, parent, taskTitle) ==
    [BlankCommand(cid, "Delete") EXCEPT
        !.taskId = taskId, !.parent = parent,
        !.description = <<"Delete task", taskTitle>>]

\* new EditTaskCommand(task, newTitle, onExecute, onUndo)
EditTaskCommand(cid, H, task, newTitle) ==
    [BlankCommand(cid, "Edit") EXCEPT
        !.task = task, !.newTitle = newTitle, !.oldTitle = H.title[task],
        !.description = <<"Edit", H.title[task], newTitle>>]

\* new ToggleStatusCommand(task, onExecute, onUndo)
ToggleStatusCommand(cid, H, task) ==
    [BlankCommand(cid, "Toggle") EXCEPT
        !.task = task,
        !.description =
            <<IF H.completed[task] THEN "Mark incomplete" ELSE "Mark complete",
              H.title[task]>>]

Event(cmd, ev) == [cid |-> cmd.cid, ev |-> ev]

\* what a command method yields: the heap and the command afterwards, the
\* callbacks it invoked (after its mutation), in order, and whether one of
\* them threw: the callback is the last statement of every method
Outcome(H, cmd, events) ==
    [heap |-> H, cmd |-> cmd, events |-> events,
     threw |-> \E k \in 1..Len(events) : events[k].ev \in cmd.throws]

\* mutation: the parent is added to its own children
CreateExecuteSelf(H, cmd) ==
    Outcome([H EXCEPT !.children = addChild(H.children, cmd.parent, cmd.parent)],
            cmd, <<Event(cmd, "onExecute")>>)

\* CreateTaskCommand.execute
CreateExecute(H, cmd) ==
    Outcome([H EXCEPT !.children = addChild(H.children, cmd.parent, cmd.task)],
            cmd, <<Event(cmd, "onExecute")>>)

\* CreateTaskCommand.undo
CreateUndo(H, cmd) ==
    Outcome([H EXCEPT !.children =
                 removeChild(H.children, cmd.parent, idOf(cmd.task)).ch],
            cmd, <<Event(cmd, "onUndo")>>)

\* DeleteTaskCommand.execute
DeleteExecute(H, cmd) ==
    LET index == findIndex(H.children[cmd.parent], cmd.taskId)
        r == removeChild(H.children, cmd.parent, cmd.taskId)
    IN  Outcome([H EXCEPT !.children = r.ch],
                [cmd EXCEPT !.deletedIndex = index, !.deletedTask = r.removed],
                <<Event(cmd, "onExecute")>>)

\* mutation: the removed node is appended at the end
DeleteRestoreAppend(seq, index, task) == Append(seq, task)

\* the re-insertion of DeleteTaskCommand.undo
DeleteRestore(seq, index, task) == spliceIn(seq, index, task)

\* DeleteTaskCommand.undo
DeleteUndo(H, cmd) ==
    IF cmd.deletedTask # NULL /\ cmd.deletedIndex # -1
    THEN Outcome([H EXCEPT !.children[cmd.parent] =
                      DeleteRestore(H.children[cmd.parent], cmd.deletedIndex,
                                    cmd.deletedTask)],
                 cmd, <<Event(cmd, "onUndo")>>)
    ELSE Outcome(H, cmd, <<>>)

\* EditTaskCommand.execute
EditExecute(H, cmd) ==
    Outcome([H EXCEPT !.title[cmd.task] = cmd.newTitle],
            cmd, <<Event(cmd, "onExecute")>>)

\* EditTaskCommand.undo
EditUndo(H, cmd) ==
    Outcome([H EXCEPT !.title[cmd.task] = cmd.oldTitle],
            cmd, <<Event(cmd, "onUndo")>>)

\* ToggleStatusCommand.execute
ToggleExecute(H, cmd) ==
    Outcome([H EXCEPT !.completed[cmd.task] = ~H.completed[cmd.task]],
            cmd, <<Event(cmd, "onExecute")>>)

\* mutation: undo leaves the flag as execute set it
ToggleUndoNoFlip(H, cmd) == Outcome(H, cmd, <<Event(cmd, "onUndo")>>)

\* ToggleStatusCommand.undo
ToggleUndo(H, cmd) ==
    Outcome([H EXCEPT !.completed[cmd.task] = ~H.completed[cmd.task]],
            cmd, <<Event(cmd, "onUndo")>>)

\* a method of a Command that throws before it has done anything
Thrown(H, cmd) == [heap |-> H, cmd |-> cmd, events |-> <<>>, threw |-> TRUE]

\* command.execute(), dispatched on the variant
cmdExecute(H, cmd) ==
    CASE "execute" \in cmd.throws -> Thrown(H, cmd)
      [] OTHER ->
            CASE cmd.type = "Create" -> CreateExecute(H, cmd)
              [] cmd.type = "Delete" -> DeleteExecute(H, cmd)
              [] cmd.type = "Edit"   -> EditExecute(H, cmd)
              [] cmd.type = "Toggle" -> ToggleExecute(H, cmd)

\* command.undo(), dispatched on the variant
cmdUndo(H, cmd) ==
    CASE "undo" \in cmd.throws -> Thrown(H, cmd)
      [] OTHER ->
            CASE cmd.type = "Create" -> CreateUndo(H, cmd)
              [] cmd.type = "Delete" -> DeleteUndo(H, cmd)
              [] cmd.type = "Edit"   -> EditUndo(H, cmd)
              [] cmd.type = "Toggle" -> ToggleUndo(H, cmd)

(***************************************************************************)
(* CommandManager.  E is [history, currentIndex].                          *)
(***************************************************************************)
Engine(h, ci) == [history |-> h, currentIndex |-> ci]

\* CommandManager.canUndo
canUndo(E) == E.currentIndex >= 0

\* CommandManager.canRedo
canRedo(E) == E.currentIndex < Len(E.history) - 1

\* mutation: the redo branch is kept
truncateKeepAll(h, ci) == h

\* execute, lines 46-48: the redo branch is dropped
truncate(h, ci) ==
    IF ci < Len(h) - 1 THEN SubSeq(h, 1, ci + 1) ELSE h

\* mutation: the oldest entry is evicted but the cursor is not moved
evictKeepIndex(E) ==
    IF Len(E.history) > maxHistorySize
    THEN Engine(Tail(E.history), E.currentIndex)
    ELSE E

\* mutation: the eviction starts one entry too late
evictLate(E) ==
    IF Len(E.history) > maxHistorySize + 1
    THEN Engine(Tail(E.history), E.currentIndex - 1)
    ELSE E

\* mutation: the newest entry is dropped instead of the oldest
evictNewest(E) ==
    IF Len(E.history) > maxHistorySize
    THEN Engine(SubSeq(E.history, 1, Len(E.history) - 1), E.currentIndex - 1)
    ELSE E

\* execute, lines 53-56: the oldest entry is evicted
evict(E) ==
    IF Len(E.history) > maxHistorySize
    THEN Engine(Tail(E.history), E.currentIndex - 1)
    ELSE E

\* mutation: the command that threw is pushed all the same
thrownExecutePushed(E, cmd) ==
    Engine(Append(E.history, cmd), E.currentIndex + 1)

\* execute, line 44: command.execute() threw, and no later line has run
thrownExecute(E, cmd) == E

\* CommandManager.execute; ret is whether the call returned (and with true,
\* for undo and redo), threw whether it ended in an exception
mgrExecute(H, E, cmd) ==
    LET r == cmdExecute(H, cmd)
        kept == truncate(E.history, E.currentIndex)
        pushed == Engine(Append(kept, r.cmd), E.currentIndex + 1)
    IN  IF r.threw
        THEN [heap |-> r.heap,
              eng |-> thrownExecute(E, r.cmd),
              ret |-> FALSE,
              cid |-> cmd.cid,
              events |-> <<Event(cmd, "execute")>> \o r.events,
              truncated |-> FALSE, evicted |-> FALSE, threw |-> TRUE]
        ELSE [heap |-> r.heap,
              eng |-> evict(pushed),
              ret |-> TRUE,
              cid |-> cmd.cid,
              events |-> <<Event(cmd, "execute")>> \o r.events,
              truncated |-> Len(kept) < Len(E.history),
              evicted |-> Len(pushed.history) > maxHistorySize,
              threw |-> FALSE]

\* a call that returns false: nothing is called, nothing changes
refused(H, E) ==
    [heap |-> H, eng |-> E, ret |-> FALSE, cid |-> 0, events |-> <<>>,
     truncated |-> FALSE, evicted |-> FALSE, threw |-> FALSE]

\* undo(), line 60: if (!this.canUndo()) return false
undoRefused(H, E) == refused(H, E)

\* mutation: the cursor is advanced before the guard is tested
redoRefusedAfterMove(H, E) ==
    [refused(H, E) EXCEPT !.eng = Engine(E.history, E.currentIndex + 1)]

\* redo(), line 70: if (!this.canRedo()) return false
redoRefused(H, E) == refused(H, E)

\* mutation: the cursor is not moved back
undoIndexStuck(ci) == ci

\* undo(), line 64
undoIndex(ci) == ci - 1

\* CommandManager.undo
mgrUndo(H, E) ==
    IF ~canUndo(E) THEN undoRefused(H, E)
    ELSE LET command == E.history[E.currentIndex + 1]
             r == cmdUndo(H, command)
         IN  [heap |-> r.heap,
              eng |-> Engine([E.history EXCEPT ![E.currentIndex + 1] = r.cmd],
                             IF r.threw THEN E.currentIndex
                             ELSE undoIndex(E.currentIndex)),
              ret |-> ~r.threw,
              cid |-> command.cid,
              events |-> <<Event(command, "undo")>> \o r.events,
              truncated |-> FALSE, evicted |-> FALSE, threw |-> r.threw]

\* redo(), line 72
redoIndex(ci) == ci + 1

\* mutation: a redo whose command threw moves the cursor back
thrownRedoIndexBack(index) == index - 1

\* redo(), line 74: command.execute() threw after line 72 moved the cursor
thrownRedoIndex(index) == index

\* CommandManager.redo
mgrRedo(H, E) ==
    IF ~canRedo(E) THEN redoRefused(H, E)
    ELSE LET index == redoIndex(E.currentIndex)
             command == E.history[index + 1]
             r == cmdExecute(H, command)
         IN  [heap |-> r.heap,
              eng |-> Engine([E.history EXCEPT ![index + 1] = r.cmd],
                             IF r.threw THEN thrownRedoIndex(index)
                             ELSE index),
              ret |-> ~r.threw,
              cid |-> command.cid,
              events |-> <<Event(command, "execute")>> \o r.events,
              truncated |-> FALSE, evicted |-> FALSE, threw |-> r.threw]

\* mutation: the history is emptied but the cursor is not reset
mgrClearKeepIndex(E) == Engine(<<>>, E.currentIndex)

\* CommandManager.clear
mgrClear(E) == Engine(<<>>, -1)

(***************************************************************************)
(* The state machine: one caller drives one CommandManager over one tree.  *)
(* lastOp records the call that produced the state: its name, its return   *)
(* value, the command methods and callbacks it invoked (in order), and     *)
(* whether execute dropped a redo branch or evicted the oldest entry.      *)
(***************************************************************************)
H0 == Heap(title, completed, children)
E0 == Engine(history, currentIndex)

\* a project whose root group has no task yet
EmptyTree == [n \in Nodes |-> <<>>]

\* p1 -> [a, b, c], b -> [x]
FullTree == [n \in Nodes |->
                 IF n = "p1" THEN <<"a", "b", "c">>
                 ELSE IF n = "b" THEN <<"x">> ELSE <<>>]

\* for a direct tree call: on is the node it was called on, arg its
\* argument, node the node it returned, value the numbers it returned
NoOp == [op |-> "new", ret |-> TRUE, cid |-> 0, events |-> <<>>,
         truncated |-> FALSE, evicted |-> FALSE, threw |-> FALSE,
         on |-> NULL, arg |-> NULL, node |-> NULL, value |-> <<>>]

InitManager ==
    /\ history = <<>>
    /\ currentIndex = -1
    /\ savedHistory = <<>>
    /\ nextCid = 1
    /\ undos = 0
    /\ edits = 0
    /\ lastOp = NoOp
    /\ observers = <<>>
    /\ projects = <<>>
    /\ isInitialized = FALSE
    /\ managers = <<>>
    /\ pending = <<>>
    /\ replaced = {}

Init ==
    /\ title = [n \in Nodes |-> IF n = Root THEN "Root" ELSE "Sub A"]
    /\ children \in {EmptyTree, FullTree}
    /\ completed = [n \in Nodes |-> n = "c" /\ children = FullTree]
    /\ InitManager

InitFill ==
    /\ title = [n \in Nodes |-> IF n = Root THEN "Root" ELSE "Sub A"]
    /\ children = EmptyTree
    /\ completed = [n \in Nodes |-> FALSE]
    /\ InitManager

\* the state after a CommandManager call with outcome r
Commit(op, r) ==
    /\ title' = r.heap.title
    /\ completed' = r.heap.completed
    /\ children' = r.heap.children
    /\ history' = r.eng.history
    /\ currentIndex' = r.eng.currentIndex
    /\ lastOp' = [NoOp EXCEPT !.op = op, !.ret = r.ret, !.cid = r.cid,
                               !.events = r.events,
                               !.truncated = r.truncated,
                               !.evicted = r.evicted,
                               !.threw = r.threw]

\* commandManager.execute(cmd) on a command constructed just before the call
Submit(cmd, cap) ==
    /\ nextCid <= cap
    /\ nextCid' = nextCid + 1
    /\ Commit("execute", mgrExecute(H0, E0, cmd))
    /\ UNCHANGED storeVars
    /\ UNCHANGED <<savedHistory, undos, edits>>

EditTitles == {"Sub B", "Root"}

\* The commands the caller can construct on heap H as its cid-th command:
\* targets and parents are found in the tree, parents are groups.
ToggleCommands(H, cid) ==
    {ToggleStatusCommand(cid, H, n) : n \in InTree(H.children)}

EditCommands(H, cid) ==
    {EditTaskCommand(cid, H, n, t) : n \in InTree(H.children), t \in EditTitles}

\* the created task is a new object, with an id of its own
CreateCommands(H, cid) ==
    IF cid > MaxCmds THEN {}
    ELSE {CreateTaskCommand(cid, H, FreshNames[cid], parent) :
              parent \in InTree(H.children) \cap Groups}

\* the id is any id of the tree, or one that names nothing
DeleteCommands(H, cid) ==
    {DeleteTaskCommand(cid, taskId, parent,
                       IF taskId \in Nodes THEN H.title[taskId] ELSE "Sub A") :
         parent \in InTree(H.children) \cap Groups,
         taskId \in {idOf(n) : n \in InTree(H.children)} \cup {AbsentId}}

ExecToggle == \E cmd \in ToggleCommands(H0, nextCid) : Submit(cmd, MaxCmds)

ExecEdit == \E cmd \in EditCommands(H0, nextCid) : Submit(cmd, MaxCmds)

ExecCreate == \E cmd \in CreateCommands(H0, nextCid) : Submit(cmd, MaxCmds)

ExecDelete == \E cmd \in DeleteCommands(H0, nextCid) : Submit(cmd, MaxCmds)

Undo ==
    /\ Commit("undo", mgrUndo(H0, E0))
    /\ UNCHANGED storeVars
    /\ UNCHANGED <<savedHistory, nextCid, undos, edits>>

Redo ==
    /\ Commit("redo", mgrRedo(H0, E0))
    /\ UNCHANGED storeVars
    /\ UNCHANGED <<savedHistory, nextCid, undos, edits>>

\* mutation: clear also empties the imported log
ClearAlsoSaved ==
    /\ history' = <<>>
    /\ currentIndex' = -1
    /\ savedHistory' = <<>>
    /\ lastOp' = [NoOp EXCEPT !.op = "clear"]
    /\ UNCHANGED storeVars
    /\ UNCHANGED <<title, completed, children, nextCid, undos, edits>>

\* commandManager.clear()
Clear ==
    /\ history' = mgrClear(E0).history
    /\ currentIndex' = mgrClear(E0).currentIndex
    /\ lastOp' = [NoOp EXCEPT !.op = "clear"]
    /\ UNCHANGED storeVars
    /\ UNCHANGED <<title, completed, children, savedHistory, nextCid, undos,
                   edits>>

Next == ExecToggle \/ ExecEdit \/ ExecCreate \/ ExecDelete
            \/ Undo \/ Redo \/ Clear

Spec == Init /\ [][Next]_vars

(***************************************************************************)
(* SpecFill: a long session.  The caller toggles the root task up to       *)
(* MaxFill times, so that the history fills and evicts, and may undo       *)
(* (at most MaxUndos times), redo, clear and import a saved log.           *)
(***************************************************************************)
\* the ISO-8601 string of a Date
toISOString(d) == <<"iso", d>>

SavedEntry(k) ==
    [description |-> <<"Create task", "Sub A">>, timestamp |-> toISOString(0 - k)]

\* logs loaded from the persistent store
SavedLogs == {<<>>, <<SavedEntry(2), SavedEntry(1)>>}

FillToggle ==
    Submit(ToggleStatusCommand(nextCid, H0, Root), MaxFill)

FillUndo ==
    /\ undos < MaxUndos
    /\ Commit("undo", mgrUndo(H0, E0))
    /\ undos' = IF canUndo(E0) THEN undos + 1 ELSE undos
    /\ UNCHANGED storeVars
    /\ UNCHANGED <<savedHistory, nextCid, edits>>

\* new Date(isoString): the Date an ISO-8601 string denotes
parseDate(iso) == iso[2]

\* Array.prototype.slice(start): a negative start counts from the end (and
\* stops at the first element), a start of 0 or more counts from the front
slice(seq, start) ==
    LET from == IF start < 0
                THEN (IF Len(seq) + start < 0 THEN 0 ELSE Len(seq) + start)
                ELSE (IF start > Len(seq) THEN Len(seq) ELSE start)
    IN  SubSeq(seq, from + 1, Len(seq))

\* CommandManager.getRecentHistory(count): history.slice(-count)
getRecentHistory(E, count) == slice(E.history, -count)

\* CommandManager.getFullHistoryForDisplay(count)
getFullHistoryForDisplay(E, savedLog, count) ==
    LET saved == [idx \in 1..Len(savedLog) |->
                     [description |-> savedLog[idx].description,
                      timestamp |-> parseDate(savedLog[idx].timestamp),
                      canUndo |-> FALSE,
                      index |-> (idx - 1) - Len(savedLog)]]
        current == [idx \in 1..Len(E.history) |->
                       [description |-> E.history[idx].description,
                        timestamp |-> E.history[idx].timestamp,
                        canUndo |-> TRUE,
                        index |-> idx - 1]]
        all == saved \o current
    IN  slice(all, -count)

\* mutation: the records come out newest first
exportHistoryReversed(E) ==
    [k \in 1..Len(E.history) |->
        [description |-> E.history[Len(E.history) + 1 - k].description,
         timestamp |-> toISOString(E.history[Len(E.history) + 1 - k].timestamp)]]

\* CommandManager.exportHistory: history.map(cmd => ({description, timestamp}))
exportHistory(E) ==
    [k \in 1..Len(E.history) |->
        [description |-> E.history[k].description,
         timestamp |-> toISOString(E.history[k].timestamp)]]

\* a call of commandManager.exportHistory()
ExportHistory ==
    /\ lastOp' = [NoOp EXCEPT !.op = "exportHistory", !.value = exportHistory(E0)]
    /\ UNCHANGED storeVars
    /\ UNCHANGED <<title, completed, children, history, currentIndex,
                   savedHistory, nextCid, undos, edits>>

\* CommandManager.importHistory
ImportHistory ==
    \E log \in SavedLogs :
        /\ savedHistory' = log
        /\ lastOp' = [NoOp EXCEPT !.op = "importHistory"]
        /\ UNCHANGED storeVars
        /\ UNCHANGED <<title, completed, children, history, currentIndex,
                       nextCid, undos, edits>>

NextFill == FillToggle \/ FillUndo \/ Redo \/ Clear \/ ImportHistory
                \/ ExportHistory

SpecFill == InitFill /\ [][NextFill]_vars

(***************************************************************************)
(* SpecTree: the composite alone.  The tree is one of a few loaded trees,  *)
(* some of which carry the id x on two objects (x and d); the caller adds  *)
(* detached nodes, removes and finds by id, and reads the aggregates.      *)
(***************************************************************************)
\* children of the listed nodes; every other node has none
Shape(p1, b, g) ==
    [n \in Nodes |-> IF n = "p1" THEN p1
                     ELSE IF n = "b" THEN b
                     ELSE IF n = "g" THEN g ELSE <<>>]

LoadedTrees ==
    {Shape(<<"a", "b", "c">>, <<"x">>, <<>>),
     Shape(<<"b", "g">>, <<"a">>, <<"x">>),
     Shape(<<"b", "d">>, <<"x">>, <<>>),
     Shape(<<"a", "b">>, <<"x", "d">>, <<>>),
     Shape(<<"b", "g">>, <<"x">>, <<"d">>)}

InitTree ==
    /\ title = [n \in Nodes |-> IF n = Root THEN "Root" ELSE "Sub A"]
    /\ children \in LoadedTrees
    /\ completed \in {[n \in Nodes |-> n \in {"b", "x", "d"}],
                      [n \in Nodes |-> n # "c"]}
    /\ InitManager

\* the objects and the ids the caller of the tree passes
TreeObjects == TreeNodes \cup ExtraNodes
TreeIds == {idOf(n) : n \in TreeObjects} \cup {AbsentId}

\* no object of the subtree of node is in the tree
Detached(ch, node) == Subtree(ch, node) \cap InTree(ch) = {}

\* group.addChild(node), on a group of the tree, with a detached node
TreeAddChild ==
    \E parent \in InTree(children) \cap Groups, node \in TreeObjects :
        /\ edits < MaxEdits
        /\ Detached(children, node)
        /\ children' = addChild(children, parent, node)
        /\ edits' = edits + 1
        /\ lastOp' = [NoOp EXCEPT !.op = "addChild", !.on = parent,
                                  !.arg = node]
        /\ UNCHANGED storeVars
        /\ UNCHANGED <<title, completed, history, currentIndex, savedHistory,
                       nextCid, undos>>

\* group.removeChild(taskId)
TreeRemoveChild ==
    \E n \in InTree(children) \cap Groups, taskId \in TreeIds :
        LET r == removeChild(children, n, taskId)
        IN  /\ edits < MaxEdits
            /\ children' = r.ch
            /\ edits' = edits + 1
            /\ lastOp' = [NoOp EXCEPT !.op = "removeChild", !.on = n,
                                      !.arg = taskId, !.node = r.removed]
            /\ UNCHANGED storeVars
            /\ UNCHANGED <<title, completed, history, currentIndex,
                           savedHistory, nextCid, undos>>

\* group.findTask(taskId)
TreeFindTask ==
    \E n \in InTree(children) \cap Groups, taskId \in TreeIds :
        /\ lastOp' = [NoOp EXCEPT !.op = "findTask", !.on = n, !.arg = taskId,
                                  !.node = findTask(children, n, taskId)]
        /\ UNCHANGED storeVars
        /\ UNCHANGED <<title, completed, children, history, currentIndex,
                       savedHistory, nextCid, undos, edits>>

\* node.getTaskCount(), node.getCompletedCount(), node.isComplete()
TreeQuery ==
    \E n \in InTree(children) :
        /\ lastOp' = [NoOp EXCEPT
                         !.op = "query", !.on = n,
                         !.ret = isComplete(children, completed, n),
                         !.value = <<getTaskCount(children, n),
                                     getCompletedCount(children, completed, n)>>]
        /\ UNCHANGED storeVars
        /\ UNCHANGED <<title, completed, children, history, currentIndex,
                       savedHistory, nextCid, undos, edits>>

\* TaskGroup.fromJSON(group.toJSON()) on a group of the tree
TreeRoundTrip ==
    \E n \in InTree(children) \cap Groups :
        /\ lastOp' = [NoOp EXCEPT !.op = "fromJSON", !.on = n,
                                  !.arg = toJSON(H0, n),
                                  !.value = fromJSON(toJSON(H0, n))]
        /\ UNCHANGED storeVars
        /\ UNCHANGED <<title, completed, children, history, currentIndex,
                       savedHistory, nextCid, undos, edits>>

NextTree == TreeAddChild \/ TreeRemoveChild \/ TreeFindTask \/ TreeQuery
                \/ TreeRoundTrip

SpecTree == InitTree /\ [][NextTree]_vars

(***************************************************************************)
(* SpecAdd: the composite under its commands and under direct calls.  The  *)
(* caller may add any node it holds to any group it holds (addChild tests  *)
(* nothing), remove by id, and submit, undo and redo CreateTask and        *)
(* DeleteTask commands.  The recursive methods of TaskGroup return only on *)
(* a tree without a cycle, so no call is made once there is one.           *)
(***************************************************************************)
\* the children of the nodes of S
Succ(ch, S) == UNION {{ch[m][k] : k \in 1..Len(ch[m])} : m \in S}

\* S with everything reachable from it in at most i steps
RECURSIVE ReachFrom(_, _, _)
ReachFrom(ch, S, i) ==
    IF i = 0 \/ Succ(ch, S) \subseteq S THEN S
    ELSE ReachFrom(ch, S \cup Succ(ch, S), i - 1)

\* the nodes below n: its children, their children, and so on
Descendants(ch, n) == ReachFrom(ch, Succ(ch, {n}), Cardinality(Nodes))

\* no node is its own descendant
Acyclic(ch) == \A n \in Nodes : n \notin Descendants(ch, n)

\* the session has room for one more change: commands submitted and direct
\* calls made are counted together
AddBudget == (nextCid - 1) + edits < MaxEdits

\* group.addChild(node), for any group and any node the caller holds
AddAnyChild ==
    /\ Acyclic(children)
    /\ AddBudget
    /\ \E parent \in TreeObjects \cap Groups, node \in TreeObjects :
           /\ children' = addChild(children, parent, node)
           /\ lastOp' = [NoOp EXCEPT !.op = "addChild", !.on = parent,
                                     !.arg = node]
    /\ edits' = edits + 1
    /\ UNCHANGED storeVars
    /\ UNCHANGED <<title, completed, history, currentIndex, savedHistory,
                   nextCid, undos>>

AddRemoveChild == Acyclic(children) /\ AddBudget /\ TreeRemoveChild

\* a CreateTask command for a new task or for a node the caller holds
AddCreate ==
    /\ Acyclic(children)
    /\ AddBudget
    /\ \E cmd \in CreateCommands(H0, nextCid)
                    \cup {CreateTaskCommand(nextCid, H0, node, parent) :
                              node \in {"b", "g"},
                              parent \in InTree(children) \cap Groups} :
           Submit(cmd, MaxCmds)

AddDelete == Acyclic(children) /\ AddBudget /\ ExecDelete

AddUndo == Acyclic(children) /\ Undo

AddRedo == Acyclic(children) /\ Redo

NextAdd == AddAnyChild \/ AddRemoveChild \/ AddCreate \/ AddDelete
               \/ AddUndo \/ AddRedo

SpecAdd == Init /\ [][NextAdd]_vars

(***************************************************************************)
(* Observable and TaskStore.  An observer is a function; what it does when *)
(* called is fixed by its name: it returns, it throws, it unsubscribes     *)
(* itself, or it subscribes another observer.  A project of the store      *)
(* holds its root tasks and a reference to its CommandManager.             *)
(***************************************************************************)
Subscribers == {"plain", "thrower", "once", "adder", "late"}

\* Array.prototype.indexOf: 0-based index of the first occurrence, -1 if none
indexOf(seq, x) ==
    IF \E k \in 1..Len(seq) : seq[k] = x
    THEN (CHOOSE k \in 1..Len(seq) :
            /\ seq[k] = x
            /\ \A j \in 1..(k - 1) : seq[j] # x) - 1
    ELSE -1

\* Observable.subscribe: the observers afterwards (the handle it returns
\* calls unsubscribe with the same observer)
subscribe(obs, observer) == Append(obs, observer)

\* Observable.unsubscribe
unsubscribe(obs, observer) ==
    LET index == indexOf(obs, observer)
    IN  IF index # -1 THEN spliceOut(obs, index) ELSE obs

\* a call observer(data): the observers afterwards, and whether it threw
invoke(obs, observer) ==
    CASE observer = "thrower" -> [observers |-> obs, threw |-> TRUE]
      [] observer = "once" ->
            [observers |-> unsubscribe(obs, observer), threw |-> FALSE]
      [] observer = "adder" ->
            [observers |-> subscribe(obs, "late"), threw |-> FALSE]
      [] OTHER -> [observers |-> obs, threw |-> FALSE]

Call(observer, data, threw) ==
    [observer |-> observer, data |-> data, threw |-> threw]

\* mutation: an exception of an observer ends the dispatch and leaves notify
RECURSIVE forEachNoCatch(_, _, _, _, _)
forEachNoCatch(obs, data, k, len, calls) ==
    IF k >= len THEN [observers |-> obs, calls |-> calls, threw |-> FALSE]
    ELSE IF k >= Len(obs) THEN forEachNoCatch(obs, data, k + 1, len, calls)
    ELSE LET r == invoke(obs, obs[k + 1])
             log == Append(calls, Call(obs[k + 1], data, r.threw))
         IN  IF r.threw
             THEN [observers |-> r.observers, calls |-> log, threw |-> TRUE]
             ELSE forEachNoCatch(r.observers, data, k + 1, len, log)

\* mutation: the dispatch goes over a copy of the array taken at the start
RECURSIVE overCopy(_, _, _, _, _, _)
overCopy(copy, obs, data, k, len, calls) ==
    IF k >= len \/ k >= Len(copy)
    THEN [observers |-> obs, calls |-> calls, threw |-> FALSE]
    ELSE LET r == invoke(obs, copy[k + 1])
         IN  overCopy(copy, r.observers, data, k + 1, len,
                      Append(calls, Call(copy[k + 1], data, r.threw)))

forEachOverCopy(obs, data, k, len, calls) ==
    overCopy(obs, obs, data, k, len, calls)

\* this.observers.forEach(observer => try { observer(data) } catch ...):
\* the indices 0..len-1, len being the length at the start, are visited in
\* order on the array as it is at that time; an index the array no longer
\* has is passed over.  calls lists the invocations made, in order.
RECURSIVE forEach(_, _, _, _, _)
forEach(obs, data, k, len, calls) ==
    IF k >= len THEN [observers |-> obs, calls |-> calls, threw |-> FALSE]
    ELSE IF k >= Len(obs) THEN forEach(obs, data, k + 1, len, calls)
    ELSE LET r == invoke(obs, obs[k + 1])
         IN  forEach(r.observers, data, k + 1, len,
                     Append(calls, Call(obs[k + 1], data, r.threw)))

\* Observable.notify(data)
notify(obs, data) == forEach(obs, data, 0, Len(obs), <<>>)

\* one notify after another: the calls of both, in order
andThen(first, data) ==
    LET second == notify(first.observers, data)
    IN  [observers |-> second.observers,
         calls |-> first.calls \o second.calls,
         threw |-> first.threw \/ second.threw]

\* the sum over the root tasks of a project, from position k
RECURSIVE sumTasks(_, _, _, _)
sumTasks(ch, c, tasks, k) ==
    IF k > Len(tasks) THEN [total |-> 0, done |-> 0]
    ELSE LET rest == sumTasks(ch, c, tasks, k + 1)
         IN  [total |-> getTaskCount(ch, tasks[k]) + rest.total,
              done |-> getCompletedCount(ch, c, tasks[k]) + rest.done]

\* the sum over the projects, from position k
RECURSIVE sumProjects(_, _, _, _)
sumProjects(ch, c, projs, k) ==
    IF k > Len(projs) THEN [total |-> 0, done |-> 0]
    ELSE LET here == sumTasks(ch, c, projs[k].tasks, 1)
             rest == sumProjects(ch, c, projs, k + 1)
         IN  [total |-> here.total + rest.total,
              done |-> here.done + rest.done]

\* A positive double is [m, e]: m the five limbs of its 53-bit significand,
\* most significant first (one bit, then four limbs of LimbBits bits), and e
\* the binary exponent of the significand's last bit.
LimbBits == 13
Limb == 2 ^ LimbBits
Limbs == 5
SignificandBits == 1 + (Limbs - 1) * LimbBits

\* limbs with c added to limb i and the carries taken up to the first limb
RECURSIVE carryFrom(_, _, _)
carryFrom(limbs, i, c) ==
    IF i = 1 THEN [limbs EXCEPT ![1] = @ + c]
    ELSE LET v == limbs[i] + c
         IN  carryFrom([limbs EXCEPT ![i] = v % Limb], i - 1, v \div Limb)

\* a significand that rounding carried up to 2^53 is 2^52 one exponent higher
renormalise(m, e) ==
    IF m[1] = 2 THEN [m |-> <<1, 0, 0, 0, 0>>, e |-> e + 1]
    ELSE [m |-> m, e |-> e]

\* n more limbs of the quotient r / b (r < b), and the remainder left
RECURSIVE longDivide(_, _, _, _)
longDivide(r, b, n, acc) ==
    IF n = 0 THEN [limbs |-> acc, rem |-> r]
    ELSE longDivide((r * Limb) % b, b, n - 1, Append(acc, (r * Limb) \div b))

\* the double a / b of two integers, 0 < a <= b < Limb: the quotient's first
\* 53 bits, rounded to nearest with a tie going to the even significand
divide(a, b) ==
    LET z == CHOOSE s \in 0..LimbBits :
                 a * 2 ^ s >= b /\ (s = 0 \/ a * 2 ^ (s - 1) < b)
        q == longDivide(a * 2 ^ z - b, b, Limbs - 1, <<1>>)
        up == 2 * q.rem > b \/ (2 * q.rem = b /\ q.limbs[Limbs] % 2 = 1)
    IN  renormalise(IF up THEN carryFrom(q.limbs, Limbs, 1) ELSE q.limbs,
                    0 - (z + (Limbs - 1) * LimbBits))

\* the double x * k for an integer k, 0 < k < Limb: the exact product,
\* rounded to 53 bits the same way
times(x, k) ==
    LET p == carryFrom([i \in 1..Limbs |-> x.m[i] * k], Limbs, 0)
        drop == CHOOSE d \in 0..LimbBits : p[1] \div 2 ^ d = 1
        low == p[Limbs] % 2 ^ drop
        kept == [i \in 1..Limbs |->
                    (p[i] \div 2 ^ drop)
                        + (IF i > 1 THEN (p[i - 1] % 2 ^ drop) * 2 ^ (LimbBits - drop)
                           ELSE 0)]
        up == drop > 0 /\ (2 * low > 2 ^ drop
                              \/ (2 * low = 2 ^ drop /\ kept[Limbs] % 2 = 1))
    IN  renormalise(IF up THEN carryFrom(kept, Limbs, 1) ELSE kept, x.e + drop)

\* Math.round of a double below Limb: the nearest integer, a half going up
MathRound(x) ==
    LET frac == 0 - x.e
        top == x.m[1] * Limb + x.m[2]
        shift == frac - (Limbs - 2) * LimbBits
    IN  IF frac > SignificandBits THEN 0
        ELSE IF frac = SignificandBits THEN 1
        ELSE (top \div 2 ^ shift) + ((top \div 2 ^ (shift - 1)) % 2)

\* percentage of getStatistics: Math.round((done / total) * 100) in doubles,
\* 0 when total is 0 (0 / total is 0, and so is its product and its rounding)
percentage(done, total) ==
    IF total > 0 /\ done > 0 THEN MathRound(times(divide(done, total), 100))
    ELSE 0

\* TaskStore.getStatistics
getStatistics(ch, c, projs) ==
    LET sums == sumProjects(ch, c, projs, 1)
    IN  [totalTasks |-> sums.total,
         completedTasks |-> sums.done,
         percentage |-> percentage(sums.done, sums.total)]

StoreEvent(type, data) == [type |-> type, data |-> data]

\* TaskStore.notifyStatsChanged
notifyStatsChanged(obs, stats) ==
    notify(obs, StoreEvent("STATS_CHANGED", stats))

\* TaskStore.notifyHistoryChanged
notifyHistoryChanged(obs) == notify(obs, StoreEvent("HISTORY_CHANGED", NULL))

\* TaskStore.notifyProjectChanged
notifyProjectChanged(obs, stats) ==
    andThen(notify(obs, StoreEvent("PROJECT_CHANGED", NULL)),
            StoreEvent("STATS_CHANGED", stats))

\* TaskStore.refresh
refresh(obs, stats) ==
    andThen(notifyProjectChanged(obs, stats), StoreEvent("HISTORY_CHANGED", NULL))

(***************************************************************************)
(* SpecBus: the TaskStore as an Observable.  The store holds one project   *)
(* with three root tasks; callers subscribe and unsubscribe observers (at  *)
(* most MaxObservers are subscribed by calls) and call the notifying       *)
(* methods.  lastOp.events lists the observer calls made, in order.        *)
(***************************************************************************)
\* a new CommandManager
NewManager == [history |-> <<>>, currentIndex |-> -1, savedHistory |-> <<>>]

Project(id, tasks, commandManager, log) ==
    [id |-> id, tasks |-> tasks, commandManager |-> commandManager,
     savedHistory |-> log]

InitBus ==
    /\ title = [n \in Nodes |-> IF n = Root THEN "Root" ELSE "Sub A"]
    /\ children = FullTree
    /\ completed \in {[n \in Nodes |-> n = "c"],
                      [n \in Nodes |-> n \in {"b", "x"}]}
    /\ history = <<>>
    /\ currentIndex = -1
    /\ savedHistory = <<>>
    /\ nextCid = 1
    /\ undos = 0
    /\ edits = 0
    /\ lastOp = NoOp
    /\ observers = <<>>
    /\ projects = <<Project("P1", <<"a", "b", "c">>, 1, <<>>)>>
    /\ isInitialized = TRUE
    /\ managers = <<NewManager>>
    /\ pending = <<>>
    /\ replaced = {}

\* everything but the observers and lastOp
busFrame ==
    <<title, completed, children, history, currentIndex, savedHistory,
      nextCid, undos, edits, projects, isInitialized, managers,
      pending, replaced>>

\* store.subscribe(observer)
Subscribe ==
    \E observer \in Subscribers :
        /\ Len(observers) < MaxObservers
        /\ observers' = subscribe(observers, observer)
        /\ lastOp' = [NoOp EXCEPT !.op = "subscribe", !.arg = observer]
        /\ UNCHANGED busFrame

\* store.unsubscribe(observer), or a call of the handle subscribe returned
Unsubscribe ==
    \E observer \in Subscribers :
        /\ observers' = unsubscribe(observers, observer)
        /\ lastOp' = [NoOp EXCEPT !.op = "unsubscribe", !.arg = observer]
        /\ UNCHANGED busFrame

\* the state after a notifying method with outcome r
Notified(op, r) ==
    /\ Len(observers) <= MaxObservers
    /\ observers' = r.observers
    /\ lastOp' = [NoOp EXCEPT !.op = op, !.ret = ~r.threw, !.events = r.calls]
    /\ UNCHANGED busFrame

Stats == getStatistics(children, completed, projects)

NotifyProjectChanged ==
    Notified("notifyProjectChanged", notifyProjectChanged(observers, Stats))

NotifyHistoryChanged ==
    Notified("notifyHistoryChanged", notifyHistoryChanged(observers))

NotifyStatsChanged ==
    Notified("notifyStatsChanged", notifyStatsChanged(observers, Stats))

Refresh == Notified("refresh", refresh(observers, Stats))

NextBus == Subscribe \/ Unsubscribe \/ NotifyProjectChanged
               \/ NotifyHistoryChanged \/ NotifyStatsChanged \/ Refresh

SpecBus == InitBus /\ [][NextBus]_vars

(***************************************************************************)
(* SpecStore: the TaskStore and the CommandManagers of its projects.  The  *)
(* store is initialized with loaded projects, first and then again;        *)
(* tasks of its projects are toggled through the project's CommandManager, *)
(* and undone and redone (at most MaxEdits merges and commands together).  *)
(* One observer is subscribed.  A CommandManager is named by its position  *)
(* in managers.                                                            *)
(***************************************************************************)
\* a project as loaded: its commandManager is set by the store
Loaded(id, tasks, log) == Project(id, tasks, 0, log)

\* the projects the persistent store can return
LoadedProjects ==
    {Loaded("A", <<"p1">>, <<SavedEntry(2), SavedEntry(1)>>),
     Loaded("B", <<"g">>, <<SavedEntry(1)>>),
     Loaded("C", <<>>, <<>>)}

\* the arguments of initialize: at most two projects, with different ids
LoadedLists ==
    {<<>>} \cup {<<p>> : p \in LoadedProjects}
           \cup {pq \in LoadedProjects \X LoadedProjects : pq[1].id # pq[2].id}

\* Array.prototype.find by project id: the position of the first project
\* with that id, 0 if none
findProject(projs, id) ==
    IF \E k \in 1..Len(projs) : projs[k].id = id
    THEN CHOOSE k \in 1..Len(projs) :
            /\ projs[k].id = id
            /\ \A j \in 1..(k - 1) : projs[j].id # id
    ELSE 0

\* mutation: the first initialize imports no saved history
ManagerWithoutLog(log) == NewManager

\* new CommandManager(), with importHistory(savedHistory) if there is some
ImportedManager(log) == [NewManager EXCEPT !.savedHistory = log]

\* the first initialize, lines 29-38: one new CommandManager per project,
\* from position k; mgrs are the managers so far
RECURSIVE mapFirst(_, _, _)
mapFirst(loaded, k, mgrs) ==
    IF k > Len(loaded) THEN [projects |-> <<>>, managers |-> mgrs]
    ELSE LET made == Append(mgrs, ImportedManager(loaded[k].savedHistory))
             rest == mapFirst(loaded, k + 1, made)
         IN  [projects |-> <<[loaded[k] EXCEPT !.commandManager = Len(made)]>>
                               \o rest.projects,
              managers |-> rest.managers]

\* mutation: a merge gives every project a new CommandManager
RECURSIVE mapSyncAllNew(_, _, _, _)
mapSyncAllNew(old, loaded, k, mgrs) ==
    IF k > Len(loaded) THEN [projects |-> <<>>, managers |-> mgrs]
    ELSE LET made == Append(mgrs, NewManager)
             rest == mapSyncAllNew(old, loaded, k + 1, made)
         IN  [projects |-> <<[loaded[k] EXCEPT !.commandManager = Len(made)]>>
                               \o rest.projects,
              managers |-> rest.managers]

\* mutation: a merge keeps the stored projects the new list does not have
RECURSIVE mapSyncKeeping(_, _, _, _)
mapSyncKeeping(old, loaded, k, mgrs) ==
    IF k > Len(loaded)
    THEN LET Dropped(p) == findProject(loaded, p.id) = 0
         IN  [projects |-> SelectSeq(old, Dropped), managers |-> mgrs]
    ELSE LET existing == findProject(old, loaded[k].id)
             made == IF existing # 0 THEN mgrs ELSE Append(mgrs, NewManager)
             cm == IF existing # 0 THEN old[existing].commandManager
                   ELSE Len(made)
             rest == mapSyncKeeping(old, loaded, k + 1, made)
         IN  [projects |-> <<[loaded[k] EXCEPT !.commandManager = cm]>>
                               \o rest.projects,
              managers |-> rest.managers]

\* syncProjects, lines 44-50: the CommandManager of the stored project with
\* the same id, or a new one
RECURSIVE mapSync(_, _, _, _)
mapSync(old, loaded, k, mgrs) ==
    IF k > Len(loaded) THEN [projects |-> <<>>, managers |-> mgrs]
    ELSE LET existing == findProject(old, loaded[k].id)
             made == IF existing # 0 THEN mgrs ELSE Append(mgrs, NewManager)
             cm == IF existing # 0 THEN old[existing].commandManager
                   ELSE Len(made)
             rest == mapSync(old, loaded, k + 1, made)
         IN  [projects |-> <<[loaded[k] EXCEPT !.commandManager = cm]>>
                               \o rest.projects,
              managers |-> rest.managers]

\* TaskStore.initialize: the projects and managers afterwards
initialize(initialized, old, mgrs, loaded) ==
    IF initialized THEN mapSync(old, loaded, 1, mgrs)
    ELSE mapFirst(loaded, 1, mgrs)

\* the tree of the store's projects: the group p1 with three children, one
\* of them a group, and the group g with two children
StoreTree == Shape(<<"a", "b", "c">>, <<"x">>, <<"d", "t1">>)

InitStore ==
    /\ title = [n \in Nodes |-> IF n = Root THEN "Root" ELSE "Sub A"]
    /\ children = StoreTree
    /\ completed = [n \in Nodes |-> FALSE]
    /\ history = <<>>
    /\ currentIndex = -1
    /\ savedHistory = <<>>
    /\ nextCid = 1
    /\ undos = 0
    /\ edits = 0
    /\ lastOp = NoOp
    /\ observers = <<"plain">>
    /\ projects = <<>>
    /\ isInitialized = FALSE
    /\ managers = <<>>
    /\ pending = <<>>
    /\ replaced = {}

\* what the store leaves alone: the single CommandManager of the other
\* specifications, the counters and the fields of the page
storeFrame ==
    <<history, currentIndex, savedHistory, undos, observers, pending, replaced>>

\* store.initialize(loaded); merges are counted, with the commands
Initialize ==
    \E loaded \in LoadedLists :
        LET r == initialize(isInitialized, projects, managers, loaded)
            stats == getStatistics(children, completed, r.projects)
        IN  /\ isInitialized => AddBudget
            /\ projects' = r.projects
            /\ managers' = r.managers
            /\ isInitialized' = TRUE
            /\ edits' = IF isInitialized THEN edits + 1 ELSE edits
            /\ lastOp' = [NoOp EXCEPT
                             !.op = "initialize", !.arg = loaded,
                             !.events = notifyProjectChanged(observers, stats).calls]
            /\ UNCHANGED <<title, completed, children, nextCid>>
            /\ UNCHANGED storeFrame

\* the nodes of the trees of a project
ProjectNodes(ch, project) ==
    UNION {Subtree(ch, project.tasks[k]) : k \in 1..Len(project.tasks)}

\* the state after a call on the CommandManager of the k-th project
StoreCommit(op, k, r) ==
    /\ title' = r.heap.title
    /\ completed' = r.heap.completed
    /\ children' = r.heap.children
    /\ managers' = [managers EXCEPT
                       ![projects[k].commandManager].history = r.eng.history,
                       ![projects[k].commandManager].currentIndex =
                           r.eng.currentIndex]
    /\ lastOp' = [NoOp EXCEPT !.op = op, !.ret = r.ret, !.cid = r.cid,
                               !.events = r.events, !.on = projects[k].id]
    /\ UNCHANGED <<projects, isInitialized, edits>>
    /\ UNCHANGED storeFrame

\* the CommandManager of the k-th project, as an engine
ManagerOf(k) ==
    Engine(managers[projects[k].commandManager].history,
           managers[projects[k].commandManager].currentIndex)

\* the tasks the caller toggles
ToggleTargets == {"p1", "g", "d"}

\* store.getCommandManager(id).execute(new ToggleStatusCommand(task))
StoreToggle ==
    \E k \in 1..Len(projects) :
        \E task \in ProjectNodes(children, projects[k]) \cap ToggleTargets :
            /\ AddBudget
            /\ nextCid' = nextCid + 1
            /\ StoreCommit("execute", k,
                   mgrExecute(H0, ManagerOf(k),
                              ToggleStatusCommand(nextCid, H0, task)))

\* store.getCommandManager(id).undo()
StoreUndo ==
    \E k \in 1..Len(projects) :
        /\ StoreCommit("undo", k, mgrUndo(H0, ManagerOf(k)))
        /\ UNCHANGED nextCid

\* store.getCommandManager(id).redo()
StoreRedo ==
    \E k \in 1..Len(projects) :
        /\ StoreCommit("redo", k, mgrRedo(H0, ManagerOf(k)))
        /\ UNCHANGED nextCid

NextStore == Initialize \/ StoreToggle \/ StoreUndo \/ StoreRedo

SpecStore == InitStore /\ [][NextStore]_vars

(***************************************************************************)
(* SpecMerge: the store of SpecStore with the merges counted apart from    *)
(* the commands (at most MaxEdits merges and MaxCmds commands), so that a  *)
(* project with commands in its history can be dropped by one merge and    *)
(* supplied again by the next.                                             *)
(***************************************************************************)
\* store.initialize(loaded)
MergeInitialize ==
    \E loaded \in LoadedLists :
        LET r == initialize(isInitialized, projects, managers, loaded)
            stats == getStatistics(children, completed, r.projects)
        IN  /\ isInitialized => edits < MaxEdits
            /\ projects' = r.projects
            /\ managers' = r.managers
            /\ isInitialized' = TRUE
            /\ edits' = IF isInitialized THEN edits + 1 ELSE edits
            /\ lastOp' = [NoOp EXCEPT
                             !.op = "initialize", !.arg = loaded,
                             !.events = notifyProjectChanged(observers, stats).calls]
            /\ UNCHANGED <<title, completed, children, nextCid>>
            /\ UNCHANGED storeFrame

\* store.getCommandManager(id).execute(new ToggleStatusCommand(task)) on
\* the root task of a project
MergeToggle ==
    \E k \in 1..Len(projects) :
        \E task \in {projects[k].tasks[j] : j \in 1..Len(projects[k].tasks)} :
            /\ nextCid <= MaxCmds
            /\ nextCid' = nextCid + 1
            /\ StoreCommit("execute", k,
                   mgrExecute(H0, ManagerOf(k),
                              ToggleStatusCommand(nextCid, H0, task)))

NextMerge == MergeInitialize \/ MergeToggle \/ StoreUndo \/ StoreRedo

SpecMerge == InitStore /\ [][NextMerge]_vars

(***************************************************************************)
(* SpecStats: getStatistics() on stores of up to MaxTotal tasks.  The      *)
(* sums over the trees are taken as their values (SpecStore computes them  *)
(* on trees); the percentage is computed from them as the code does.       *)
(***************************************************************************)
GetStatistics ==
    \E total \in 0..MaxTotal : \E done \in 0..total :
        /\ lastOp' = [NoOp EXCEPT
                          !.op = "getStatistics",
                          !.value = [totalTasks |-> total,
                                     completedTasks |-> done,
                                     percentage |-> percentage(done, total)]]
        /\ UNCHANGED <<title, completed, children, history, currentIndex,
                       savedHistory, nextCid, undos, edits, storeVars>>

NextStats == GetStatistics

SpecStats == InitStore /\ [][NextStats]_vars

(***************************************************************************)
(* SpecFault: one caller drives one CommandManager with commands whose     *)
(* callbacks can throw.  What a callback does when it is called is chosen  *)
(* when the command is built and can change afterwards (rewire), as the    *)
(* code the callback calls comes to fail or to work again.                 *)
(***************************************************************************)
\* what throws in a command: nothing, one of its callbacks, or one of its
\* methods
Throws == {{}, {"onExecute"}, {"onUndo"}, {"execute"}, {"undo"}}

\* the commands the caller builds: a toggle of task a, and the creation of
\* a task under the root
FaultCommands(H, cid) ==
    {cmd \in ToggleCommands(H, cid) : cmd.task = "a"}
        \cup {cmd \in CreateCommands(H, cid) : cmd.parent = Root}

\* the state after a CommandManager call with outcome r; the calls that
\* threw are counted, at most MaxFaults of them
FaultCommit(op, r) ==
    /\ r.threw => edits < MaxFaults
    /\ edits' = IF r.threw THEN edits + 1 ELSE edits
    /\ Commit(op, r)
    /\ UNCHANGED storeVars
    /\ UNCHANGED <<savedHistory, undos>>

\* commandManager.execute(cmd) on a command built just before the call
FaultExecute ==
    \E cmd \in FaultCommands(H0, nextCid) : \E throws \in Throws :
        /\ nextCid <= MaxCmds
        /\ nextCid' = nextCid + 1
        /\ FaultCommit("execute",
                       mgrExecute(H0, E0, [cmd EXCEPT !.throws = throws]))

\* commandManager.undo()
FaultUndo ==
    /\ FaultCommit("undo", mgrUndo(H0, E0))
    /\ UNCHANGED nextCid

\* commandManager.redo()
FaultRedo ==
    /\ FaultCommit("redo", mgrRedo(H0, E0))
    /\ UNCHANGED nextCid

\* what the callbacks of a command of the history do changes
Rewire ==
    \E k \in 1..Len(history) : \E throws \in Throws :
        /\ history[k].throws # throws
        /\ history' = [history EXCEPT ![k].throws = throws]
        /\ lastOp' = [NoOp EXCEPT !.op = "rewire", !.cid = history[k].cid]
        /\ UNCHANGED <<title, completed, children, currentIndex, savedHistory,
                       nextCid, undos, edits, storeVars>>

NextFault == FaultExecute \/ FaultUndo \/ FaultRedo \/ Rewire

SpecFault == Init /\ [][NextFault]_vars

(***************************************************************************)
(* SpecPage: the project page on one project.  Its handlers toggle and     *)
(* edit tasks and add subtasks through the project's CommandManager, add   *)
(* and delete tasks, undo and redo (at most MaxEdits commands and direct   *)
(* changes together).  The persistence calls the callbacks start are not   *)
(* awaited: they stay in flight, at most MaxPending at a time, until they  *)
(* settle, each with success or failure, in any order.  A handler that     *)
(* awaits a call runs as one step with the call's result as its input.     *)
(* The callbacks also call taskStore.refresh(), which notifies the one     *)
(* observer subscribed and changes no field.                               *)
(***************************************************************************)
\* a persistence call: the function, the task id and the value sent, as
\* the request carries it
Request(fn, taskId, value) == [fn |-> fn, id |-> taskId, value |-> value]

\* a boolean as a request carries it
json(b) == IF b THEN "true" ELSE "false"

\* the position in the store of the project the page displays
PageProject == 1

\* findTaskById of the page: depth first over the root tasks, from position k
RECURSIVE findTaskById(_, _, _, _)
findTaskById(ch, tasks, taskId, k) ==
    IF k > Len(tasks) THEN NULL
    ELSE LET found == findTask(ch, tasks[k], taskId)
         IN  IF found # NULL THEN found
             ELSE findTaskById(ch, tasks, taskId, k + 1)

InitPage ==
    /\ title = [n \in Nodes |-> IF n = Root THEN "Root" ELSE "Sub A"]
    /\ children = FullTree
    /\ completed = [n \in Nodes |-> FALSE]
    /\ history = <<>>
    /\ currentIndex = -1
    /\ savedHistory = <<>>
    /\ nextCid = 1
    /\ undos = 0
    /\ edits = 0
    /\ lastOp = NoOp
    /\ observers = <<"plain">>
    /\ projects = <<Project("A", <<"p1">>, 1, <<>>)>>
    /\ isInitialized = TRUE
    /\ managers = <<NewManager>>
    /\ pending = <<>>
    /\ replaced = {}

\* what the page leaves alone: the single CommandManager of the other
\* specifications, the counter of undos and the observers
pageFrame == <<history, currentIndex, savedHistory, undos, observers>>

\* the task the page finds under an id, NULL if none
PageTask(taskId) ==
    findTaskById(children, projects[PageProject].tasks, taskId, 1)

\* the persistence calls the callbacks in events start, in order, from
\* position k
RECURSIVE started(_, _, _)
started(cmd, events, k) ==
    IF k > Len(events) THEN <<>>
    ELSE (IF events[k].ev = "onExecute" THEN cmd.onExecute
          ELSE IF events[k].ev = "onUndo" THEN cmd.onUndo
          ELSE <<>>) \o started(cmd, events, k + 1)

\* the persistence calls started during a CommandManager call with outcome r
Fired(r) ==
    IF r.events = <<>> THEN <<>>
    ELSE started(CHOOSE cmd \in {r.eng.history[k] : k \in 1..Len(r.eng.history)} :
                     cmd.cid = r.cid,
                 r.events, 1)

\* mutation: a command built before a reload acts on the tasks of the store
inStoreAlways(H, r, gone) == r.heap

\* the tasks of the store after a CommandManager call with outcome r on the
\* heap H: the command changed the task objects it captured when it was
\* built, and those of the commands in gone are no longer the store's
inStore(H, r, gone) == IF r.cid \in gone THEN H ELSE r.heap

\* the state after a call on the project's CommandManager with outcome r.  A
\* command built before a reload holds task objects the store no longer
\* has: what it changes is not the tree displayed.
PageCommit(op, r) ==
    /\ Len(pending) + Len(Fired(r)) <= MaxPending
    /\ title' = inStore(H0, r, replaced).title
    /\ completed' = inStore(H0, r, replaced).completed
    /\ children' = inStore(H0, r, replaced).children
    /\ managers' = [managers EXCEPT
                       ![projects[PageProject].commandManager].history =
                           r.eng.history,
                       ![projects[PageProject].commandManager].currentIndex =
                           r.eng.currentIndex]
    /\ pending' = pending \o Fired(r)
    /\ lastOp' = [NoOp EXCEPT !.op = op, !.ret = r.ret, !.cid = r.cid,
                               !.events = r.events,
                               !.on = projects[PageProject].id]
    /\ UNCHANGED <<projects, isInitialized, edits, replaced>>
    /\ UNCHANGED pageFrame

\* a handler that caught the failure of the call it awaited: it alerts
PageFailed(op) ==
    /\ lastOp' = [NoOp EXCEPT !.op = op, !.ret = FALSE]
    /\ UNCHANGED <<title, completed, children, nextCid, edits, projects,
                   isInitialized, managers, pending, replaced>>
    /\ UNCHANGED pageFrame

\* the ids and titles the user acts on
PageIds == {"a", "b"}
PageTitles == {"Sub B"}

\* handleToggleTask(taskId)
PageToggle ==
    \E taskId \in PageIds :
        LET task == PageTask(taskId)
            newStatus == ~completed[task]
            command ==
                [ToggleStatusCommand(nextCid, H0, task) EXCEPT
                    !.onExecute = <<Request("toggleTaskCompletion", taskId,
                                            json(newStatus))>>,
                    !.onUndo = <<Request("toggleTaskCompletion", taskId,
                                         json(~newStatus))>>]
        IN  /\ task # NULL
            /\ AddBudget
            /\ nextCid' = nextCid + 1
            /\ PageCommit("execute",
                          mgrExecute(H0, ManagerOf(PageProject), command))

\* handleEditTask(taskId, newTitle)
PageEdit ==
    \E taskId \in PageIds : \E newTitle \in PageTitles :
        LET task == PageTask(taskId)
            command ==
                [EditTaskCommand(nextCid, H0, task, newTitle) EXCEPT
                    !.onExecute = <<Request("updateTaskTitle", taskId,
                                            newTitle)>>,
                    !.onUndo = <<Request("updateTaskTitle", taskId,
                                         title[task])>>]
        IN  /\ task # NULL
            /\ AddBudget
            /\ nextCid' = nextCid + 1
            /\ PageCommit("execute",
                          mgrExecute(H0, ManagerOf(PageProject), command))

\* the objects the page or a command of the project holds
PageObjects ==
    ProjectNodes(children, projects[PageProject])
        \cup {ManagerOf(PageProject).history[k].task :
                  k \in 1..Len(ManagerOf(PageProject).history)}

\* handleAddSubtask(parentId, title): createTask is awaited and gives a new
\* Task, which a CreateTaskCommand adds to the parent
PageAddSubtask ==
    \E parentId \in PageIds : \E created \in BOOLEAN :
        LET parent == PageTask(parentId)
        IN  /\ parent # NULL
            /\ parent \in Groups
            /\ AddBudget
            /\ IF created
               THEN \E newSubtask \in (FreshNodes \ Groups) \ PageObjects :
                        /\ nextCid' = nextCid + 1
                        /\ PageCommit("execute",
                               mgrExecute(H0, ManagerOf(PageProject),
                                   [CreateTaskCommand(nextCid, H0, newSubtask,
                                                      parent) EXCEPT
                                       !.onUndo = <<Request("deleteTask",
                                                            idOf(newSubtask),
                                                            NULL)>>]))
               ELSE PageFailed("addSubtask")

\* handleAddTask(): createTask is awaited, and a new TaskGroup of the task
\* created is pushed on project.tasks
PageAddTask ==
    \E created \in BOOLEAN :
        /\ AddBudget
        /\ IF created
           THEN \E newTaskGroup \in (FreshNodes \cap Groups) \ PageObjects :
                    /\ projects' = [projects EXCEPT
                                       ![PageProject].tasks =
                                           Append(@, newTaskGroup)]
                    /\ edits' = edits + 1
                    /\ lastOp' = [NoOp EXCEPT !.op = "addTask",
                                               !.node = newTaskGroup,
                                               !.on = projects[PageProject].id]
                    /\ UNCHANGED <<title, completed, children, nextCid,
                                   isInitialized, managers, pending, replaced>>
                    /\ UNCHANGED pageFrame
           ELSE PageFailed("addTask")

\* a sequence without the task
without(seq, task) == SelectSeq(seq, LAMBDA n : n # task)

\* handleDeleteTask(taskId): deleteTask is awaited and then, whether it
\* succeeded or failed, the project is loaded again and merged into the
\* store.  What is loaded is the tree displayed, less the task if the
\* deletion succeeded, in new objects: the commands of the history hold the
\* old ones.
PageDelete ==
    \E taskId \in PageIds : \E deleted \in BOOLEAN :
        LET task == PageTask(taskId)
            old == projects[PageProject]
            data == Loaded(old.id,
                           IF deleted THEN without(old.tasks, task)
                           ELSE old.tasks,
                           <<>>)
            r == initialize(isInitialized, projects, managers, <<data>>)
        IN  /\ task # NULL
            /\ AddBudget
            /\ edits' = edits + 1
            /\ children' = IF deleted
                           THEN [n \in Nodes |-> without(children[n], task)]
                           ELSE children
            /\ projects' = r.projects
            /\ managers' = r.managers
            /\ replaced' = 1..(nextCid - 1)
            /\ lastOp' = [NoOp EXCEPT !.op = "deleteTask", !.ret = deleted,
                                       !.arg = taskId, !.node = task,
                                       !.on = old.id]
            /\ UNCHANGED <<title, completed, nextCid, isInitialized, pending>>
            /\ UNCHANGED pageFrame

\* handleUndo of the history panel
PageUndo ==
    /\ PageCommit("undo", mgrUndo(H0, ManagerOf(PageProject)))
    /\ UNCHANGED nextCid

\* handleRedo of the history panel
PageRedo ==
    /\ PageCommit("redo", mgrRedo(H0, ManagerOf(PageProject)))
    /\ UNCHANGED nextCid

\* mutation: a failed toggleTaskCompletion puts the flag back
settledWithRollback(H, request, ok) ==
    IF ~ok /\ request.fn = "toggleTaskCompletion" /\ request.id \in Nodes
    THEN [H EXCEPT !.completed[request.id] = (request.value = json(FALSE))]
    ELSE H

\* the heap after a persistence call has settled: its promise has no
\* continuation but catch(console.error)
settled(H, request, ok) == H

\* a persistence call in flight settles
Settle ==
    \E k \in 1..Len(pending) : \E ok \in BOOLEAN :
        LET heap == settled(H0, pending[k], ok)
        IN  /\ pending' = spliceOut(pending, k - 1)
            /\ title' = heap.title
            /\ completed' = heap.completed
            /\ children' = heap.children
            /\ lastOp' = [NoOp EXCEPT !.op = "settled", !.ret = ok,
                                       !.arg = pending[k]]
            /\ UNCHANGED <<nextCid, edits, projects, isInitialized, managers,
                           replaced>>
            /\ UNCHANGED pageFrame

NextPage == PageToggle \/ PageEdit \/ PageAddSubtask \/ PageAddTask
                \/ PageDelete \/ PageUndo \/ PageRedo \/ Settle

SpecPage == InitPage /\ [][NextPage]_vars

(***************************************************************************)
(* Properties.                                                             *)
(***************************************************************************)
\* the command instances of a history, in order
CidSeq(h) == [k \in 1..Len(h) |-> h[k].cid]

\* the command instances of a history
Cids(h) == {h[k].cid : k \in 1..Len(h)}

\* the command methods among the events of a call
MethodCalls(events) ==
    SelectSeq(events, LAMBDA e : e.ev \in {"execute", "undo"})

\* the callbacks among the events of a call
Callbacks(events) ==
    SelectSeq(events, LAMBDA e : e.ev \in {"onExecute", "onUndo"})

\* C1: in every state reached by execute, undo, redo, clear and
\* importHistory from an empty manager, -1 <= currentIndex < history.length.
C1_CursorInRange ==
    /\ -1 <= currentIndex
    /\ currentIndex < Len(history)

\* an eviction has happened, on a manager with an imported log
C1_Witness ==
    /\ lastOp.op = "execute"
    /\ lastOp.evicted
    /\ savedHistory # <<>>
    /\ currentIndex = Len(history) - 1

\* C2: after every call, history.length is at most maxHistorySize.
C2_HistoryBounded == Len(history) <= maxHistorySize

\* the execute that would have made the history one entry too long
C2_Witness ==
    /\ lastOp.op = "execute"
    /\ lastOp.evicted
    /\ Len(history) = maxHistorySize

C4_CursorOnExecuted ==
    lastOp.op = "execute" =>
        /\ currentIndex = Len(history) - 1
        /\ currentIndex >= 0
        /\ history[currentIndex + 1].cid = lastOp.cid
        /\ canUndo(E0)
        /\ ~canRedo(E0)
        /\ mgrUndo(H0, E0).ret
        /\ MethodCalls(mgrUndo(H0, E0).events)
               = <<[cid |-> lastOp.cid, ev |-> "undo"]>>

\* an execute that evicted the oldest entry
C4_Witness ==
    /\ lastOp.op = "execute"
    /\ lastOp.evicted
    /\ lastOp.cid = MaxFill
    /\ history[1].cid = MaxFill - maxHistorySize + 1

\* C5: undo() returns true exactly when currentIndex >= 0 before the call,
\* and then calls undo() once, on history[currentIndex], and moves the
\* cursor back by one; redo() returns true exactly when
\* currentIndex < history.length - 1 before the call, and then moves the
\* cursor forward by one and calls execute() once, on the command at the
\* new index; neither changes which commands the history holds.
C5_UndoRedoStep ==
    [][/\ lastOp'.op = "undo" =>
            /\ lastOp'.ret = (currentIndex >= 0)
            /\ CidSeq(history') = CidSeq(history)
            /\ lastOp'.ret =>
                 /\ currentIndex' = currentIndex - 1
                 /\ MethodCalls(lastOp'.events) =
                        <<[cid |-> history[currentIndex + 1].cid, ev |-> "undo"]>>
       /\ lastOp'.op = "redo" =>
            /\ lastOp'.ret = (currentIndex < Len(history) - 1)
            /\ CidSeq(history') = CidSeq(history)
            /\ lastOp'.ret =>
                 /\ currentIndex' = currentIndex + 1
                 /\ MethodCalls(lastOp'.events) =
                        <<[cid |-> history[currentIndex + 2].cid, ev |-> "execute"]>>
      ]_vars

\* a redo of the first of two commands, both of which had been undone
C5_Witness ==
    /\ lastOp.op = "redo"
    /\ lastOp.ret
    /\ Len(history) = 2
    /\ currentIndex = 0

\* C6: undo() with canUndo() false and redo() with canRedo() false return
\* false and leave history, currentIndex and the tree as they were; no
\* command method and no callback is called.
C6_RefusedIsNoOp ==
    [][(\/ lastOp'.op = "undo" /\ currentIndex < 0
        \/ lastOp'.op = "redo" /\ currentIndex >= Len(history) - 1) =>
            /\ lastOp'.ret = FALSE
            /\ lastOp'.events = <<>>
            /\ UNCHANGED <<title, completed, children, history, currentIndex>>
      ]_vars

\* a redo refused at the end of a history of two commands
C6_Witness ==
    /\ lastOp.op = "redo"
    /\ ~lastOp.ret
    /\ Len(history) = 2
    /\ currentIndex = 1

\* every command the caller can construct in the current state
Constructible ==
    ToggleCommands(H0, nextCid) \cup EditCommands(H0, nextCid)
        \cup CreateCommands(H0, nextCid) \cup DeleteCommands(H0, nextCid)

\* C7: for every command variant, tree and target, execute() followed by
\* undo() on the same command leaves every node and child sequence as it
\* was before execute().
C7_ExecuteUndoRoundTrip ==
    \A cmd \in Constructible :
        LET x == cmdExecute(H0, cmd)
            u == cmdUndo(x.heap, x.cmd)
        IN  u.heap = H0

\* C8: where canUndo() holds, undo() followed by redo() calls the same
\* command instance twice and restores tree, history and currentIndex.
C8_UndoRedoRestores ==
    canUndo(E0) =>
        LET u == mgrUndo(H0, E0)
            r == mgrRedo(u.heap, u.eng)
        IN  /\ u.ret /\ r.ret
            /\ r.cid = u.cid
            /\ r.heap = H0
            /\ CidSeq(r.eng.history) = CidSeq(history)
            /\ r.eng.currentIndex = currentIndex

\* seq without its element at 0-based index i
WithoutAt(seq, i) ==
    [k \in 1..(Len(seq) - 1) |-> IF k <= i THEN seq[k] ELSE seq[k + 1]]

\* C9: a DeleteTask of the direct child at index i of parent removes that
\* child only (the others keep their order, no other node changes), and
\* its undo() puts the node back at index i: the tree is as before.
C9_DeleteRestoresPosition ==
    \A parent \in InTree(children) \cap Groups :
        \A i \in 0..(Len(children[parent]) - 1) :
            LET cmd == DeleteTaskCommand(nextCid, idOf(children[parent][i + 1]),
                                         parent, title[children[parent][i + 1]])
                x == cmdExecute(H0, cmd)
                u == cmdUndo(x.heap, x.cmd)
            IN  /\ x.heap.children[parent] = WithoutAt(children[parent], i)
                /\ \A n \in Nodes \ {parent} :
                       x.heap.children[n] = children[n]
                /\ x.cmd.deletedIndex = i
                /\ x.cmd.deletedTask = children[parent][i + 1]
                /\ u.heap.children[parent][i + 1] = children[parent][i + 1]
                /\ u.heap = H0

\* the manager has undone the deletion of b, the middle child of [a, b, c]
C9_Witness ==
    /\ lastOp.op = "undo"
    /\ lastOp.ret
    /\ currentIndex + 2 <= Len(history)
    /\ history[currentIndex + 2].type = "Delete"
    /\ history[currentIndex + 2].cid = lastOp.cid
    /\ history[currentIndex + 2].deletedTask = "b"
    /\ history[currentIndex + 2].deletedIndex = 1
    /\ children["p1"] = <<"a", "b", "c">>

\* C10: DeleteTask.execute() changes nothing in the tree when the id is
\* not a direct child of the designated parent.
C10_DeleteNonChildNoOp ==
    \A cmd \in DeleteCommands(H0, nextCid) :
        findIndex(children[cmd.parent], cmd.taskId) = -1 =>
            cmdExecute(H0, cmd).heap = H0

\* the scenario of C11: on a project that started with an empty root group,
\* the only commands ever constructed are CreateTask(t1, p1) and then, when
\* two, ToggleStatus(t1), and both are still in the history
C11_Scenario(n) ==
    /\ "a" \notin InTree(children)
    /\ nextCid = n + 1
    /\ CidSeq(history) = [k \in 1..n |-> k]
    /\ history[1].type = "Create"
    /\ history[1].task = "t1"
    /\ history[1].parent = Root
    /\ n = 2 => (history[2].type = "Toggle" /\ history[2].task = "t1")

\* the aggregate counts of the tree
Counts(H) ==
    <<getTaskCount(H.children, Root),
      getCompletedCount(H.children, H.completed, Root)>>

RECURSIVE undoRun(_, _)
undoRun(H, E) ==
    LET u == mgrUndo(H, E)
    IN  IF u.ret THEN 1 + undoRun(u.heap, u.eng) ELSE 0

\* C12: when more than maxHistorySize commands have been executed in a row
\* (no undo) on an empty history, history.length = maxHistorySize,
\* currentIndex = maxHistorySize - 1, the history holds the last
\* maxHistorySize commands in execution order, and exactly maxHistorySize
\* consecutive undo() calls return true.
C12_KeepsLastCommands ==
    (lastOp.op = "execute" /\ lastOp.evicted /\ undos = 0) =>
        /\ Len(history) = maxHistorySize
        /\ currentIndex = maxHistorySize - 1
        /\ CidSeq(history) =
               [k \in 1..maxHistorySize |-> nextCid - 1 - maxHistorySize + k]
        /\ undoRun(H0, E0) = maxHistorySize

\* the last command of the run has been executed, with no undo before it
C12_Witness ==
    /\ lastOp.op = "execute"
    /\ lastOp.evicted
    /\ undos = 0
    /\ nextCid = MaxFill + 1
    /\ 1 \notin Cids(history)

\* C13: for every command variant, execute() invokes onExecute exactly
\* once and undo() invokes onUndo exactly once.
C13_CallbacksOnce ==
    \A cmd \in Constructible :
        LET x == cmdExecute(H0, cmd)
            u == cmdUndo(x.heap, x.cmd)
        IN  /\ x.events = <<Event(cmd, "onExecute")>>
            /\ u.events = <<Event(cmd, "onUndo")>>


\* the sum of a sequence of numbers
RECURSIVE SumSeq(_)
SumSeq(q) == IF q = <<>> THEN 0 ELSE Head(q) + SumSeq(Tail(q))

\* C14: for every node of the tree, getTaskCount is 1 plus the sum of the
\* children's getTaskCount, so it is at least 1, is the number of nodes of
\* the subtree and is 1 for a leaf; getCompletedCount is 1 for a completed
\* node (0 otherwise) plus the sum of the children's getCompletedCount, so
\* it is the number of completed nodes of the subtree; and a call of the
\* queries leaves every child sequence, title and completed flag as it was.
C14_Counts ==
    \A n \in InTree(children) :
        LET kids == children[n]
            taskCount == getTaskCount(children, n)
            completedCount == getCompletedCount(children, completed, n)
        IN  /\ taskCount =
                   1 + SumSeq([k \in 1..Len(kids) |->
                                   getTaskCount(children, kids[k])])
            /\ taskCount >= 1
            /\ taskCount = Cardinality(Subtree(children, n))
            /\ kids = <<>> => taskCount = 1
            /\ completedCount =
                   (IF completed[n] THEN 1 ELSE 0)
                   + SumSeq([k \in 1..Len(kids) |->
                                 getCompletedCount(children, completed,
                                                   kids[k])])
            /\ completedCount =
                   Cardinality({m \in Subtree(children, n) : completed[m]})

C14_QueriesReadOnly ==
    lastOp'.op = "query" => UNCHANGED <<title, completed, children>>

C14_AggregateCounts == []C14_Counts /\ [][C14_QueriesReadOnly]_vars

\* a query on the root of a tree of three levels and six nodes, three of
\* them completed, has just returned
C14_Witness ==
    /\ lastOp.op = "query"
    /\ lastOp.on = Root
    /\ lastOp.value = <<6, 3>>
    /\ \E n \in InTree(children) \ {Root} : children[n] # <<>>


\* C15: a node whose own completed flag is false is not complete, whatever
\* its children are; a node whose flag is true is complete exactly when
\* every child is complete; and a ToggleStatus command, executed or undone,
\* flips the flag of its own task and leaves the flag of every other node,
\* the parent's included, as it was.
C15_CompletionSemantics ==
    /\ \A n \in InTree(children) :
           LET kids == \A k \in 1..Len(children[n]) :
                           isComplete(children, completed, children[n][k])
           IN  /\ ~completed[n] => ~isComplete(children, completed, n)
               /\ completed[n] => (isComplete(children, completed, n) <=> kids)
    /\ \A cmd \in ToggleCommands(H0, nextCid) :
           LET x == cmdExecute(H0, cmd)
               u == cmdUndo(x.heap, x.cmd)
           IN  /\ x.heap.completed[cmd.task] = ~completed[cmd.task]
               /\ \A n \in Nodes \ {cmd.task} :
                      /\ x.heap.completed[n] = completed[n]
                      /\ u.heap.completed[n] = completed[n]

\* the child x of group b has just been toggled to completed: every child
\* of b is complete, b's own flag is still false and b is not complete
C15_Witness ==
    /\ lastOp.op = "execute"
    /\ currentIndex >= 0
    /\ history[currentIndex + 1].type = "Toggle"
    /\ history[currentIndex + 1].task = "x"
    /\ children["b"] = <<"x">>
    /\ completed["x"]
    /\ ~completed["b"]
    /\ ~isComplete(children, completed, "b")


\* the positions (1-based) of the direct children of n that carry taskId
DirectMatches(ch, n, taskId) ==
    {k \in 1..Len(ch[n]) : idOf(ch[n][k]) = taskId}

\* the positions of the children of n below which taskId occurs
DeepMatches(ch, n, taskId) ==
    {k \in 1..Len(ch[n]) :
        \E m \in Subtree(ch, ch[n][k]) \ {ch[n][k]} : idOf(m) = taskId}

Lowest(S) == CHOOSE k \in S : \A j \in S : k <= j

\* C16: a removeChild(taskId) on node n that returns a node has detached
\* exactly that node, with its subtree: one child sequence lost one
\* element, the first one in it with that id, and nothing else changed.
\* If a direct child of n has the id, the sequence is n's own; otherwise it
\* lies below the first child of n under which the id occurs, and is that
\* child's own if one of its direct children has the id.  The node n itself
\* is never the one removed, and stays where it is.
C16_Step ==
    LET n == lastOp'.on
        taskId == lastOp'.arg
        node == lastOp'.node
        changed == {p \in Nodes : children'[p] # children[p]}
        direct == DirectMatches(children, n, taskId)
        deep == DeepMatches(children, n, taskId)
    IN  (lastOp'.op = "removeChild" /\ node # NULL) =>
            /\ idOf(node) = taskId
            /\ node # n
            /\ n \in InTree(children')
            /\ \E p \in Subtree(children, n) :
                   LET j == Lowest(DirectMatches(children, p, taskId))
                   IN  /\ changed = {p}
                       /\ DirectMatches(children, p, taskId) # {}
                       /\ children[p][j] = node
                       /\ children'[p] = WithoutAt(children[p], j - 1)
                       /\ direct # {} => p = n
                       /\ direct = {} =>
                              LET first == children[n][Lowest(deep)]
                              IN  /\ deep # {}
                                  /\ p \in Subtree(children, first)
                                  /\ DirectMatches(children, first, taskId)
                                         # {} => p = first
            /\ InTree(children') = InTree(children) \ Subtree(children, node)
            /\ UNCHANGED <<title, completed>>

C16_RemoveChildOrder == [][C16_Step]_vars

\* group b has the children x and d, both with the id x: removeChild("x")
\* on the root found no direct child, went into b and removed x, not d
C16_Witness ==
    /\ lastOp.op = "removeChild"
    /\ lastOp.on = Root
    /\ lastOp.arg = "x"
    /\ lastOp.node = "x"
    /\ children[Root] = <<"a", "b">>
    /\ children["b"] = <<"d">>


\* C17: a removeChild(taskId) on node n, when no node below n has that id,
\* returns null and leaves every child sequence, title and completed flag
\* as it was (also when the id is the one of n itself or of a node
\* elsewhere in the tree).
C17_Step ==
    LET n == lastOp'.on
        taskId == lastOp'.arg
        below == Subtree(children, n) \ {n}
    IN  (lastOp'.op = "removeChild" /\ \A m \in below : idOf(m) # taskId) =>
            /\ lastOp'.node = NULL
            /\ UNCHANGED <<title, completed, children>>

C17_RemoveAbsentIsNoOp == [][C17_Step]_vars

\* removeChild("c") on group b, which has a child but none with that id
\* (c is a child of the root), has just returned null
C17_Witness ==
    /\ lastOp.op = "removeChild"
    /\ lastOp.on = "b"
    /\ lastOp.arg = "c"
    /\ lastOp.node = NULL
    /\ children[Root] = <<"a", "b", "c">>
    /\ children["b"] = <<"x">>


\* no two nodes of the subtree of n carry the same id
UniqueIds(ch, n) ==
    \A m1, m2 \in Subtree(ch, n) : idOf(m1) = idOf(m2) => m1 = m2

\* the nodes of the subtree of n, each node before its children and each
\* child's whole subtree before the next child
RECURSIVE Preorder(_, _)
RECURSIVE PreorderFrom(_, _, _)
Preorder(ch, n) == <<n>> \o PreorderFrom(ch, n, 1)

PreorderFrom(ch, n, k) ==
    IF k > Len(ch[n]) THEN <<>>
    ELSE Preorder(ch, ch[n][k]) \o PreorderFrom(ch, n, k + 1)

\* the first node of a sequence that carries taskId, or NULL
FirstWithId(q, taskId) ==
    IF \E k \in 1..Len(q) : idOf(q[k]) = taskId
    THEN q[Lowest({k \in 1..Len(q) : idOf(q[k]) = taskId})]
    ELSE NULL

\* C18 as stated: on every tree, also one where an id occurs twice,
\* findTask(taskId) on node n returns n for n's own id, and for every other
\* id the node that removeChild(taskId) on n would remove (null when
\* removeChild would return null).
C18_SameSearchOrder ==
    \A n \in InTree(children) \cap Groups, taskId \in TreeIds :
        findTask(children, n, taskId) =
            IF taskId = idOf(n) THEN n
            ELSE removeChild(children, n, taskId).removed

\* C18 amended: findTask(taskId) on node n returns the first node with that
\* id in pre-order (n, then each child followed by that child's subtree, in
\* child order), so n itself for n's own id; on a subtree whose ids are
\* unique this is, for every other id, the node removeChild(taskId) on n
\* would remove, and null exactly when removeChild would return null.
C18_FindTaskPreorder ==
    \A n \in InTree(children) \cap Groups, taskId \in TreeIds :
        LET found == findTask(children, n, taskId)
        IN  /\ found = FirstWithId(Preorder(children, n), taskId)
            /\ taskId = idOf(n) => found = n
            /\ (UniqueIds(children, n) /\ taskId # idOf(n)) =>
                   found = removeChild(children, n, taskId).removed

\* on a tree of three levels with unique ids, findTask("x") on the root has
\* just returned the grandchild x, the node removeChild("x") would remove
C18_Witness ==
    /\ lastOp.op = "findTask"
    /\ lastOp.on = Root
    /\ lastOp.arg = "x"
    /\ lastOp.node = "x"
    /\ UniqueIds(children, Root)
    /\ children["b"] = <<"x">>
    /\ removeChild(children, Root, "x").removed = "x"


SafeInsert(ch, parent, node) == parent \notin {node} \cup Descendants(ch, node)

\* the insertion a step asks for is safe: the arguments of addChild, the
\* task and parent of the CreateTask command executed or redone, the
\* removed task and the parent of the DeleteTask command undone
C19_InsertsSafely ==
    LET done == history'[currentIndex' + 1]
        undone == history[currentIndex + 1]
    IN  /\ lastOp'.op = "addChild" =>
               SafeInsert(children, lastOp'.on, lastOp'.arg)
        /\ (lastOp'.op \in {"execute", "redo"} /\ lastOp'.ret
                /\ done.type = "Create") =>
               SafeInsert(children, done.parent, done.task)
        /\ (lastOp'.op = "undo" /\ lastOp'.ret /\ undone.type = "Delete"
                /\ undone.deletedTask # NULL) =>
               SafeInsert(children, undone.parent, undone.deletedTask)

C20_Step ==
    lastOp'.op = "clear" =>
        /\ history' = <<>>
        /\ currentIndex' = -1
        /\ ~canUndo(Engine(history', currentIndex'))
        /\ ~canRedo(Engine(history', currentIndex'))
        /\ lastOp'.events = <<>>
        /\ UNCHANGED <<title, completed, children, savedHistory>>

C20_ClearOnlyResetsHistory == [][C20_Step]_vars

\* clear() has just been called after an import and after toggles that
\* left the root completed, one of them undone: the flag is still set and
\* the imported log is still there
C20_Witness ==
    /\ lastOp.op = "clear"
    /\ history = <<>>
    /\ currentIndex = -1
    /\ savedHistory # <<>>
    /\ completed[Root]
    /\ undos > 0


\* C21: importHistory(log) replaces the imported log and nothing else:
\* history, currentIndex, canUndo() and canRedo() are as before, so while
\* there is no session command undo() returns false whatever was imported.
\* exportHistory() yields one record per command of history, in order, with
\* that command's description and the ISO string of its timestamp, and
\* changes no state.
C21_Export ==
    LET out == exportHistory(E0)
    IN  /\ Len(out) = Len(history)
        /\ \A k \in 1..Len(history) :
               /\ DOMAIN out[k] = {"description", "timestamp"}
               /\ out[k].description = history[k].description
               /\ out[k].timestamp = toISOString(history[k].timestamp)
        /\ history = <<>> => ~mgrUndo(H0, E0).ret

C21_Step ==
    /\ lastOp'.op = "importHistory" =>
           /\ UNCHANGED <<history, currentIndex, title, completed, children>>
           /\ canUndo(Engine(history', currentIndex')) = canUndo(E0)
           /\ canRedo(Engine(history', currentIndex')) = canRedo(E0)
    /\ lastOp'.op = "exportHistory" =>
           /\ lastOp'.value = exportHistory(E0)
           /\ UNCHANGED <<history, currentIndex, savedHistory, title,
                          completed, children>>

C21_ImportExportFrame == []C21_Export /\ [][C21_Step]_vars

\* two entries have just been imported into a manager whose three session
\* commands include one that is undone: canUndo and canRedo are both true
C21_Witness ==
    /\ lastOp.op = "importHistory"
    /\ Len(savedHistory) = 2
    /\ Len(history) = 3
    /\ canUndo(E0)
    /\ canRedo(E0)
    /\ Len(exportHistory(E0)) = 3


\* the last m elements of a sequence
LastN(seq, m) == SubSeq(seq, Len(seq) - m + 1, Len(seq))

Min(a, b) == IF a < b THEN a ELSE b

\* the combined sequence: the imported entries, oldest first and marked
\* non-undoable, then the session commands, oldest first and marked undoable
Combined ==
    [k \in 1..(Len(savedHistory) + Len(history)) |->
        IF k <= Len(savedHistory)
        THEN [description |-> savedHistory[k].description,
              timestamp |-> parseDate(savedHistory[k].timestamp),
              canUndo |-> FALSE,
              index |-> k - 1 - Len(savedHistory)]
        ELSE [description |-> history[k - Len(savedHistory)].description,
              timestamp |-> history[k - Len(savedHistory)].timestamp,
              canUndo |-> TRUE,
              index |-> k - Len(savedHistory) - 1]]

\* C22: for every n >= 0 the display view for n is exactly the most recent
\* min(n, imported + session) entries of the combined sequence (imported
\* entries first and non-undoable, session commands after them and
\* undoable, each group oldest to newest).
C22_DisplayView ==
    \A n \in 0..MaxCount :
        getFullHistoryForDisplay(E0, savedHistory, n)
            = LastN(Combined, Min(n, Len(Combined)))

\* C22 for n >= 1 only
C22_DisplayViewPositive ==
    \A n \in 1..MaxCount :
        getFullHistoryForDisplay(E0, savedHistory, n)
            = LastN(Combined, Min(n, Len(Combined)))

\* C23: for every n >= 0 getRecentHistory(n) is exactly the last
\* min(n, history.length) commands of history, in order; none for n = 0.
C23_RecentHistory ==
    \A n \in 0..MaxCount :
        getRecentHistory(E0, n) = LastN(history, Min(n, Len(history)))

\* C23 for n >= 1 only
C23_RecentHistoryPositive ==
    \A n \in 1..MaxCount :
        getRecentHistory(E0, n) = LastN(history, Min(n, Len(history)))


\* the observers called, in call order
Called(calls) == [k \in 1..Len(calls) |-> calls[k].observer]

\* no observer of the list changes the list when called
Quiet(obs) == \A k \in 1..Len(obs) : obs[k] \notin {"once", "adder"}

AnyEvent == StoreEvent("HISTORY_CHANGED", NULL)

\* C24: notify(data) calls every subscribed observer, once per
\* registration and in subscription order, before it returns: the observers
\* called are exactly the list of subscribers as it is when notify is
\* called, so an observer unsubscribed before the call is not among them.
C24_NotifyCallsEverySubscriber ==
    LET r == notify(observers, AnyEvent)
    IN  /\ Called(r.calls) = observers
        /\ \A k \in 1..Len(r.calls) : r.calls[k].data = AnyEvent

\* C24 when no subscribed observer changes the list during the dispatch
C24_NotifyCallsEveryQuietSubscriber ==
    Quiet(observers) => C24_NotifyCallsEverySubscriber

\* C25: when an observer throws during notify, every observer after it in
\* subscription order is still called for that notification, and notify
\* returns normally.
C25_ThrowDoesNotStopDispatch ==
    LET r == notify(observers, AnyEvent)
    IN  \A i \in 1..Len(r.calls) :
            r.calls[i].threw =>
                /\ ~r.threw
                /\ \E k \in 1..Len(observers) :
                       /\ observers[k] = r.calls[i].observer
                       /\ Called(SubSeq(r.calls, i + 1, Len(r.calls)))
                              = SubSeq(observers, k + 1, Len(observers))

\* C25 when no subscribed observer changes the list during the dispatch
C25_ThrowDoesNotStopQuietDispatch ==
    Quiet(observers) => C25_ThrowDoesNotStopDispatch

\* how many times x occurs in a sequence
Count(seq, x) == Cardinality({k \in 1..Len(seq) : seq[k] = x})

\* the events delivered to an observer, in order
Delivered(calls, observer) ==
    LET ToObserver(c) == c.observer = observer
        mine == SelectSeq(calls, ToObserver)
    IN  [k \in 1..Len(mine) |-> mine[k].data]

Types(calls) == {calls[k].data.type : k \in 1..Len(calls)}

\* C26: notifyProjectChanged() delivers to each subscriber (one subscribed
\* before and after the call, once per registration) PROJECT_CHANGED and
\* then STATS_CHANGED with the statistics of that moment, and delivers no
\* HISTORY_CHANGED; notifyStatsChanged() delivers none either; only
\* notifyHistoryChanged() and refresh() deliver HISTORY_CHANGED.
C26_ProjectChangeCascades ==
    LET r == notifyProjectChanged(observers, Stats)
    IN  /\ \A s \in Subscribers :
               LET n == Count(observers, s)
               IN  (n > 0 /\ Count(r.observers, s) = n) =>
                       Delivered(r.calls, s) =
                           [k \in 1..(2 * n) |->
                               IF k <= n
                               THEN StoreEvent("PROJECT_CHANGED", NULL)
                               ELSE StoreEvent("STATS_CHANGED", Stats)]
        /\ "HISTORY_CHANGED" \notin Types(r.calls)
        /\ "HISTORY_CHANGED" \notin Types(notifyStatsChanged(observers, Stats).calls)
        /\ observers # <<>> =>
               Types(notifyHistoryChanged(observers).calls)
                   = {"HISTORY_CHANGED"}
        /\ r.observers # <<>> =>
               "HISTORY_CHANGED" \in Types(refresh(observers, Stats).calls)

\* C26 when no subscribed observer changes the list during the dispatch
C26_QuietProjectChangeCascades ==
    Quiet(observers) => C26_ProjectChangeCascades


\* the nodes of all trees of the store's projects
StoreNodes == UNION {ProjectNodes(children, projects[k]) : k \in 1..Len(projects)}

\* what getStatistics() reported: in SpecStats the value the call returned,
\* otherwise the statistics of the store as it is
Reported ==
    IF lastOp.op = "getStatistics" THEN lastOp.value
    ELSE getStatistics(children, completed, projects)

\* p is 100 * done / total rounded to the nearest integer, a half going up
Rounds(p, done, total) ==
    /\ 2 * p * total - total <= 200 * done
    /\ 200 * done < 2 * p * total + total

\* the sums of getStatistics() are those of getTaskCount() and
\* getCompletedCount() over every root task of every project: the number
\* of nodes, and of completed nodes, of the store's trees
C27_Sums ==
    LET st == getStatistics(children, completed, projects)
        perProject(k) ==
            [j \in 1..Len(projects[k].tasks) |->
                <<getTaskCount(children, projects[k].tasks[j]),
                  getCompletedCount(children, completed, projects[k].tasks[j])>>]
        totals == [k \in 1..Len(projects) |->
                      SumSeq([j \in 1..Len(projects[k].tasks) |->
                                  perProject(k)[j][1]])]
        dones == [k \in 1..Len(projects) |->
                     SumSeq([j \in 1..Len(projects[k].tasks) |->
                                 perProject(k)[j][2]])]
    IN  /\ st.totalTasks = SumSeq(totals)
        /\ st.completedTasks = SumSeq(dones)
        /\ st.totalTasks = Cardinality(StoreNodes)
        /\ st.completedTasks = Cardinality({n \in StoreNodes : completed[n]})

\* C27: getStatistics() returns as totalTasks and completedTasks the sums of
\* getTaskCount() and getCompletedCount() over every root task of every
\* project; percentage is an integer in 0..100, 0 when totalTasks is 0 and
\* otherwise 100 * completedTasks / totalTasks rounded to the nearest
\* integer.
C27_Statistics ==
    /\ C27_Sums
    /\ Reported.percentage \in 0..100
    /\ Reported.totalTasks = 0 => Reported.percentage = 0
    /\ Reported.totalTasks > 0 =>
           Rounds(Reported.percentage, Reported.completedTasks,
                  Reported.totalTasks)

\* the percentage is a nearest integer to 100 * completedTasks / totalTasks
\* in every case: where the quotient lies halfway between two integers it
\* is one of the two
C27_StatisticsNearest ==
    /\ C27_Sums
    /\ Reported.percentage \in 0..100
    /\ Reported.totalTasks = 0 => Reported.percentage = 0
    /\ Reported.totalTasks > 0 =>
           \/ Rounds(Reported.percentage, Reported.completedTasks,
                     Reported.totalTasks)
           \/ 2 * Reported.percentage * Reported.totalTasks
                  + Reported.totalTasks = 200 * Reported.completedTasks

\* with fewer than MaxTotal tasks the percentage is the rounded quotient
C27_StatisticsOfFewTasks ==
    Reported.totalTasks < MaxTotal => C27_Statistics

\* a step of initialize() on a store that is initialized already
Merge ==
    /\ isInitialized
    /\ lastOp'.op = "initialize"
    /\ edits' = edits + 1

\* C28: an initialize() after the first leaves each incoming project whose
\* id the store knows with the CommandManager it had, whose history,
\* currentIndex, canUndo() and canRedo() the call does not change, and gives
\* each incoming project of an unknown id a CommandManager of its own that
\* did not exist before and is empty.
C28_Step ==
    Merge =>
        /\ Len(projects') = Len(lastOp'.arg)
        /\ \A j \in 1..Len(projects') :
               LET known == findProject(projects, projects'[j].id)
                   cm == projects'[j].commandManager
               IN  /\ projects'[j].id = lastOp'.arg[j].id
                   /\ cm \in 1..Len(managers')
                   /\ known # 0 =>
                          /\ cm = projects[known].commandManager
                          /\ managers'[cm].history = managers[cm].history
                          /\ managers'[cm].currentIndex = managers[cm].currentIndex
                          /\ canUndo(Engine(managers'[cm].history,
                                            managers'[cm].currentIndex))
                                 = canUndo(ManagerOf(known))
                          /\ canRedo(Engine(managers'[cm].history,
                                            managers'[cm].currentIndex))
                                 = canRedo(ManagerOf(known))
                   /\ known = 0 =>
                          /\ cm > Len(managers)
                          /\ managers'[cm] = NewManager
                          /\ \A i \in 1..Len(projects') :
                                 projects'[i].commandManager = cm => i = j

C28_MergeKeepsManagers == [][C28_Step]_vars

\* a merge of projects A and B into a store that knew A, after a toggle in
\* A: A's CommandManager still holds the command, B's is new
C28_Witness ==
    /\ lastOp.op = "initialize"
    /\ edits = 1
    /\ Len(projects) = 2
    /\ projects[1].id = "A"
    /\ Len(managers[projects[1].commandManager].history) = 1
    /\ managers[projects[1].commandManager].currentIndex = 0
    /\ projects[2].commandManager = Len(managers)
    /\ managers[projects[2].commandManager] = NewManager

\* the CommandManager of the project the page displays
PageManager == managers[projects[PageProject].commandManager]

\* the value a persistence call of the page sent is the value the task has
Shows(request) ==
    \A n \in ProjectNodes(children, projects[PageProject]) :
        idOf(n) = request.id =>
            /\ request.fn = "toggleTaskCompletion" =>
                   json(completed[n]) = request.value
            /\ request.fn = "updateTaskTitle" => title[n] = request.value
            /\ request.fn # "deleteTask"

\* when execute, undo or redo has returned true, the command is at its
\* place in the history, the tree shows what the command did and the
\* persistence calls its callback started are the last in flight
C29_Returned ==
    (lastOp.op \in {"execute", "undo", "redo"} /\ lastOp.ret) =>
        LET E == PageManager
            at == IF lastOp.op = "undo" THEN E.currentIndex + 2
                  ELSE E.currentIndex + 1
            cmd == E.history[at]
            calls == IF lastOp.op = "undo" THEN cmd.onUndo ELSE cmd.onExecute
        IN  /\ at \in 1..Len(E.history)
            /\ cmd.cid = lastOp.cid
            /\ lastOp.op = "execute" => at = Len(E.history)
            /\ Len(pending) >= Len(calls)
            /\ SubSeq(pending, Len(pending) - Len(calls) + 1, Len(pending))
                   = calls
            /\ cmd.cid \notin replaced =>
                   /\ \A k \in 1..Len(calls) : Shows(calls[k])
                   /\ cmd.type = "Create" =>
                          (lastOp.op = "undo")
                              = (cmd.task \notin
                                     ProjectNodes(children,
                                                  projects[PageProject]))

\* a step in which a persistence call settles takes that call out of those
\* in flight and changes nothing else: not the tree, not a history, not a
\* currentIndex, and it starts no call
C29_Settled ==
    lastOp'.op = "settled" =>
        /\ Len(pending') = Len(pending) - 1
        /\ \E k \in 1..Len(pending) :
               /\ pending[k] = lastOp'.arg
               /\ pending' = spliceOut(pending, k - 1)
        /\ UNCHANGED <<title, completed, children, managers, projects,
                       history, currentIndex, nextCid>>

\* C29: the persistence a command's callback starts is not awaited.  When
\* execute, undo or redo returns, the tree, the history and currentIndex hold
\* the values of the operation while the call is still in flight, and the
\* call's later success or failure changes none of them: no rollback, no
\* retry, no new history entry.
C29_PersistenceNotAwaited == []C29_Returned /\ [][C29_Settled]_vars

\* task a was toggled to completed, and toggleTaskCompletion has failed
\* since: a is still completed, and the command is still the one to undo
C29_Witness ==
    /\ lastOp.op = "settled"
    /\ ~lastOp.ret
    /\ lastOp.arg = Request("toggleTaskCompletion", "a", json(TRUE))
    /\ completed["a"]
    /\ Len(PageManager.history) = 1
    /\ PageManager.currentIndex = 0
    /\ pending = <<>>

\* a step of a page handler that made its change: for handleDeleteTask the
\* deletion succeeded, for the others the awaited call did
PageActed ==
    /\ lastOp'.op \in {"execute", "addTask", "deleteTask"}
    /\ lastOp'.ret

\* after the step the action of the step can be undone: the last command of
\* the history was made in the step, it is the one undo() takes, and undo()
\* gives back the tree and the root tasks of before the step
Undoable ==
    LET E == Engine(managers'[projects'[PageProject].commandManager].history,
                    managers'[projects'[PageProject].commandManager].currentIndex)
        r == mgrUndo(Heap(title', completed', children'), E)
    IN  /\ canUndo(E)
        /\ E.currentIndex = Len(E.history) - 1
        /\ E.history[Len(E.history)].cid = nextCid
        /\ nextCid' = nextCid + 1
        /\ r.ret
        /\ r.heap = H0
        /\ projects'[PageProject].tasks = projects[PageProject].tasks

\* C30: every task action of the project page (add task, add subtask,
\* toggle, edit, delete) is submitted as a command to the project's
\* CommandManager: after it canUndo() is true and undo() reverses it.
C30_Step == PageActed => Undoable

C30_EveryActionUndoable == [][C30_Step]_vars

\* toggling, editing and adding a subtask are submitted as commands
C30_CommandStep == (PageActed /\ lastOp'.op = "execute") => Undoable

C30_CommandActionsUndoable == [][C30_CommandStep]_vars

\* the heap after undo() has been called until it returns false
RECURSIVE undoAll(_, _)
undoAll(H, E) ==
    IF ~canUndo(E) THEN H
    ELSE LET u == mgrUndo(H, E) IN undoAll(u.heap, u.eng)

\* the command a step of execute or redo ran is no DeleteTask, or its target
\* is a direct child of its parent
DeletesDirectChild ==
    LET cmd == history'[currentIndex' + 1]
    IN  cmd.type = "Delete" =>
            findIndex(children[cmd.parent], cmd.taskId) # -1

\* a step of execute, undo or redo leaves the tree that undoing everything
\* gives as it was
C31_Step ==
    (/\ lastOp'.op \in {"execute", "undo", "redo"}
     /\ lastOp'.ret
     /\ lastOp'.op # "undo" => DeletesDirectChild)
        => undoAll(Heap(title', completed', children'),
                   Engine(history', currentIndex')) = undoAll(H0, E0)

\* C31: with DeleteTask targets that are direct children, undo() repeated
\* until it returns false gives the tree of before the first execute, also
\* when redo branches were discarded on the way: the tree it gives is the
\* tree itself while the history is empty, and no execute, undo or redo
\* changes it.
C31_UndoAllRestores ==
    /\ [](history = <<>> => undoAll(H0, E0) = H0)
    /\ [][C31_Step]_vars

\* a redo branch was just discarded and the tree is not the loaded one;
\* undoing everything gives the loaded tree
C31_Witness ==
    /\ lastOp.op = "execute"
    /\ lastOp.truncated
    /\ nextCid = 3
    /\ H0 # undoAll(H0, E0)
    /\ undoAll(H0, E0) =
           Heap([n \in Nodes |-> IF n = Root THEN "Root" ELSE "Sub A"],
                [n \in Nodes |-> n = "c"], FullTree)

\* a call that ended in an exception did not return, and what threw was
\* the last thing it called: the command's method, or the callback the
\* method called last
Propagated ==
    lastOp.threw =>
        /\ ~lastOp.ret
        /\ lastOp.events # <<>>
        /\ lastOp.events[Len(lastOp.events)].cid = lastOp.cid
        /\ lastOp.events[Len(lastOp.events)].ev
               \in {"execute", "undo", "onExecute", "onUndo"}

\* a step of execute or undo that ended in an exception
C32_Step ==
    (lastOp'.threw /\ lastOp'.op \in {"execute", "undo"}) =>
        /\ history' = history
        /\ currentIndex' = currentIndex

\* C32: when the command's execute() throws inside execute(cmd), or the
\* current command's undo() throws inside undo(), the exception reaches the
\* caller and history and currentIndex are as before the call: the command
\* is not appended, the redo branch is not cut, the cursor does not move.
C32_ThrowLeavesHistory == []Propagated /\ [][C32_Step]_vars

\* execute(cmd) has thrown while there was a redo branch, which is still
\* there
C32_Witness ==
    /\ lastOp.op = "execute"
    /\ lastOp.threw
    /\ Len(history) = 1
    /\ currentIndex = -1
    /\ lastOp.cid \notin Cids(history)

\* a step of redo that ended in an exception: the cursor has moved to the
\* command that threw, it is in range, and undo() would call that command's
\* undo()
C33_Step ==
    (lastOp'.threw /\ lastOp'.op = "redo") =>
        LET E == Engine(history', currentIndex')
            u == mgrUndo(Heap(title', completed', children'), E)
        IN  /\ currentIndex' = currentIndex + 1
            /\ CidSeq(history') = CidSeq(history)
            /\ -1 <= currentIndex' /\ currentIndex' < Len(history')
            /\ history'[currentIndex' + 1].cid = lastOp'.cid
            /\ canUndo(E)
            /\ u.cid = lastOp'.cid
            /\ u.events[1] = [cid |-> lastOp'.cid, ev |-> "undo"]

\* C33: when the command's execute() throws inside redo(), the exception
\* reaches the caller with currentIndex advanced by one: history[currentIndex]
\* is the command whose re-execution failed, -1 <= currentIndex <
\* history.length holds, and a following undo() calls that command's undo().
C33_RedoThrowKeepsAdvance == [][C33_Step]_vars

\* redo() has thrown in the command's execute() before the task was
\* toggled again: a is not completed, and the next undo() toggles it
C33_Witness ==
    /\ lastOp.op = "redo"
    /\ lastOp.threw
    /\ lastOp.events = <<[cid |-> lastOp.cid, ev |-> "execute"]>>
    /\ currentIndex = 0
    /\ history[1].type = "Toggle"
    /\ ~completed["a"]
    /\ mgrUndo(H0, E0).heap.completed["a"]

\* the array as it is when the dispatch of notify(data) on the observers
\* obs reaches index k: after the visits of the indices 0..k-1
ArrayAt(obs, k) == forEach(obs, AnyEvent, 0, k, <<>>).observers

\* the call made at index k of the dispatch removes an element at or
\* before k: the observer there unsubscribes itself or an earlier one
RemovesAt(obs, k) ==
    /\ k < Len(ArrayAt(obs, k))
    /\ Len(ArrayAt(obs, k + 1)) < Len(ArrayAt(obs, k))

\* the subscriber at index k+1 when the dispatch reaches index k, where it
\* is registered once and is not the one a call can add
NextAt(obs, k) ==
    LET array == ArrayAt(obs, k)
    IN  IF k + 2 <= Len(array)
           /\ Count(array, array[k + 2]) = 1 /\ array[k + 2] # "late"
        THEN {array[k + 2]} ELSE {}

\* C34 (first part): when the subscriber called at index i unsubscribes
\* itself or an earlier subscriber, the subscriber then at index i+1 is not
\* called in that notification, and is a subscriber after it.
C34_RemovalSkipsNext ==
    LET r == notify(observers, AnyEvent)
    IN  \A k \in 0..(Len(observers) - 1) :
            RemovesAt(observers, k) =>
                \A s \in NextAt(observers, k) :
                    /\ Count(Called(r.calls), s) = 0
                    /\ Count(r.observers, s) = 1

\* a subscriber is added during the notification: "late", subscribed by no
\* one before, is subscribed after
AddsLate(obs) ==
    /\ Count(obs, "late") = 0
    /\ Count(notify(obs, AnyEvent).observers, "late") > 0

UndoTarget(E) ==
    IF canUndo(E) THEN {E.history[E.currentIndex + 1]} ELSE {}

RedoTarget(E) ==
    IF canRedo(E) THEN {E.history[E.currentIndex + 2]} ELSE {}

\* the trees and statistics of the store are the same after the step
SameStore ==
    /\ projects' = projects
    /\ title' = title /\ completed' = completed /\ children' = children
    /\ getStatistics(children', completed', projects')
           = getStatistics(children, completed, projects)

C35_Step ==
    LET E == ManagerOf(PageProject)
        after == Engine(managers'[projects[PageProject].commandManager].history,
                        managers'[projects[PageProject].commandManager].currentIndex)
    IN  /\ (lastOp'.op = "undo"
             /\ \E cmd \in UndoTarget(E) : cmd.cid \in replaced) =>
                /\ lastOp'.ret = TRUE
                /\ after.currentIndex = E.currentIndex - 1
                /\ SameStore
        /\ (lastOp'.op = "redo"
             /\ \E cmd \in RedoTarget(E) : cmd.cid \in replaced) =>
                /\ lastOp'.ret = TRUE
                /\ after.currentIndex = E.currentIndex + 1
                /\ SameStore

getCommandManager(projs, mgrs, id) ==
    IF findProject(projs, id) = 0 THEN {}
    ELSE {mgrs[projs[findProject(projs, id)].commandManager]}

\* the step is an initialize(loaded) on an initialized store
MergeOf(loaded) ==
    /\ isInitialized
    /\ lastOp'.op = "initialize"
    /\ lastOp'.arg = loaded

C36_Step ==
    \A loaded \in LoadedLists :
        MergeOf(loaded) =>
            /\ Len(projects') = Len(loaded)
            /\ \A k \in 1..Len(loaded) :
                   [projects'[k] EXCEPT !.commandManager = 0] = loaded[k]
            /\ \A j \in 1..Len(projects) :
                   findProject(loaded, projects[j].id) = 0 =>
                       /\ getCommandManager(projects', managers', projects[j].id) = {}
                       /\ \A k \in 1..Len(projects') :
                              projects'[k].commandManager
                                  # projects[j].commandManager
            /\ \A k \in 1..Len(loaded) :
                   findProject(projects, loaded[k].id) = 0 =>
                       /\ projects'[k].commandManager > Len(managers)
                       /\ \A cm \in getCommandManager(projects', managers',
                                                      loaded[k].id) :
                              /\ cm.history = <<>>
                              /\ cm.currentIndex = -1

\* C36: after an initialize(P) on an initialized store the projects of the
\* store are those of P, in P's order; a stored project P does not have is
\* dropped with its CommandManager, and a project whose id the store did
\* not have (one dropped before included) gets a CommandManager with an
\* empty history and currentIndex -1.
C36_MergeReplacesProjects == [][C36_Step]_vars

\* project A was dropped while its CommandManager had a command in its
\* history, and has been supplied again: its CommandManager is another, and
\* is empty
C36_Witness ==
    /\ lastOp.op = "initialize"
    /\ \E m \in 1..Len(managers) :
           /\ managers[m].history # <<>>
           /\ managers[m].history[1].task = "p1"
           /\ \A k \in 1..Len(projects) : projects[k].commandManager # m
    /\ \E cm \in getCommandManager(projects, managers, "A") :
           cm.history = <<>> /\ cm.currentIndex = -1

\* the imported log of the CommandManager of the k-th project of projs
ImportedLog(projs, mgrs, k) == mgrs[projs[k].commandManager].savedHistory

C37_Step ==
    /\ \A m \in 1..Len(managers) :
           managers'[m].savedHistory = managers[m].savedHistory
    /\ (~isInitialized /\ lastOp'.op = "initialize") =>
           \A k \in 1..Len(projects') :
               ImportedLog(projects', managers', k) = lastOp'.arg[k].savedHistory
    /\ \A loaded \in LoadedLists :
           MergeOf(loaded) =>
               \A k \in 1..Len(loaded) :
                   LET existing == findProject(projects, loaded[k].id)
                   IN  ImportedLog(projects', managers', k) =
                           IF existing = 0 THEN <<>>
                           ELSE ImportedLog(projects, managers, existing)

\* C37: the saved history of a project is imported into its CommandManager
\* by the first initialize() only: in a later initialize a new
\* CommandManager has an empty imported log, whatever saved history the
\* project comes with, and a CommandManager that is kept keeps the imported
\* log it had; no other call changes an imported log.
C37_FirstInitializeImports == [][C37_Step]_vars

\* after a merge: project A kept its CommandManager and the log imported
\* by the first initialize, project B came with a saved history and has a
\* new CommandManager with an empty imported log
C37_Witness ==
    /\ lastOp.op = "initialize"
    /\ edits > 0
    /\ \E a, b \in 1..Len(projects) :
           /\ projects[a].id = "A"
           /\ ImportedLog(projects, managers, a) = projects[a].savedHistory
           /\ projects[a].savedHistory # <<>>
           /\ projects[b].id = "B"
           /\ projects[b].savedHistory # <<>>
           /\ ImportedLog(projects, managers, b) = <<>>

\* getTaskCount() of a task built by fromJSON
RECURSIVE builtTaskCount(_)
builtTaskCount(task) ==
    IF task.class = "TaskGroup"
    THEN LET counts == [k \in 1..Len(task.children) |->
                           builtTaskCount(task.children[k])]
         IN  groupTaskCount(SumSeq(counts))
    ELSE 1

\* getCompletedCount() of a task built by fromJSON
RECURSIVE builtCompletedCount(_)
builtCompletedCount(task) ==
    LET thisCount == IF task.completed THEN 1 ELSE 0
    IN  IF task.class = "TaskGroup"
        THEN LET counts == [k \in 1..Len(task.children) |->
                               builtCompletedCount(task.children[k])]
             IN  thisCount + SumSeq(counts)
        ELSE thisCount

\* the children of a node of the heap, and of a task built by fromJSON
ChildrenOf(H, n) == IF n \in Groups THEN H.children[n] ELSE <<>>

builtChildren(task) == IF task.class = "TaskGroup" THEN task.children ELSE <<>>

\* the task built has the id, title and flag of node n and is of the class
\* given, and its children are those of n's children, in order: a child
\* is a TaskGroup exactly when the node it is built from has children
RECURSIVE SameTree(_, _, _, _)
SameTree(H, n, task, class) ==
    /\ task.class = class
    /\ task.id = idOf(n)
    /\ task.title = H.title[n]
    /\ task.completed = H.completed[n]
    /\ Len(builtChildren(task)) = Len(ChildrenOf(H, n))
    /\ \A k \in 1..Len(ChildrenOf(H, n)) :
           SameTree(H, ChildrenOf(H, n)[k], builtChildren(task)[k],
                    IF ChildrenOf(H, ChildrenOf(H, n)[k]) # <<>>
                    THEN "TaskGroup" ELSE "Task")

\* C38: TaskGroup.fromJSON(group.toJSON()) is a tree with the id, title,
\* completed flag and child order of the group's tree at every node, and so
\* with its getTaskCount() and getCompletedCount(); its root is a
\* TaskGroup, and a node below is a TaskGroup exactly when its record has a
\* non-empty children array: a group without children comes back as a Task.
C38_RoundTrip ==
    lastOp.op = "fromJSON" =>
        /\ lastOp.arg = toJSON(H0, lastOp.on)
        /\ SameTree(H0, lastOp.on, lastOp.value, "TaskGroup")
        /\ builtTaskCount(lastOp.value) = getTaskCount(children, lastOp.on)
        /\ builtCompletedCount(lastOp.value)
               = getCompletedCount(children, completed, lastOp.on)

\* the tree of p1 has been rebuilt while the group g, a child of p1, was
\* empty, and g has come back as a Task; b, with a child, as a TaskGroup
C38_Witness ==
    /\ lastOp.op = "fromJSON"
    /\ lastOp.on = Root
    /\ \E j, k \in 1..Len(children[Root]) :
           /\ children[Root][k] = "g"
           /\ children["g"] = <<>>
           /\ lastOp.value.children[k].class = "Task"
           /\ children[Root][j] = "b"
           /\ lastOp.value.children[j].class = "TaskGroup"

\* C39: for every node n of a tree, 0 <= getCompletedCount() <=
\* getTaskCount(), and isComplete() is true exactly when the two counts are
\* equal, which is when every node of the subtree of n has completed true;
\* so for the values a call returned.
C39_CountsAndCompletion ==
    /\ \A n \in InTree(children) :
           LET tasks == getTaskCount(children, n)
               done == getCompletedCount(children, completed, n)
               all == \A m \in Subtree(children, n) : completed[m]
           IN  /\ 0 <= done /\ done <= tasks
               /\ isComplete(children, completed, n) <=> (done = tasks)
               /\ (done = tasks) <=> all
    /\ lastOp.op = "query" =>
           /\ lastOp.value = <<getTaskCount(children, lastOp.on),
                                getCompletedCount(children, completed, lastOp.on)>>
           /\ lastOp.ret = isComplete(children, completed, lastOp.on)
           /\ lastOp.ret <=> (lastOp.value[1] = lastOp.value[2])

\* the counts and isComplete() have been asked of a group of three nodes,
\* all of them completed
C39_Witness ==
    /\ lastOp.op = "query"
    /\ lastOp.on \in Groups
    /\ lastOp.ret = TRUE
    /\ lastOp.value = <<3, 3>>

====
